---- MODULE Spec2Model ----
(***************************************************************************)
(* Model of the RTX Toolkit bot: the in-memory StateManager, the SQLite    *)
(* store behind DatabaseManager and the command / callback / message       *)
(* handlers that route inbound events.                                     *)
(*                                                                         *)
(* Text is modelled as a sequence of one-character strings so that the     *)
(* regular expressions, strip(), lower() and endswith() of the handlers    *)
(* are computed, not assumed.                                              *)
(***************************************************************************)
EXTENDS Integers, Sequences, FiniteSets, TLC

VARIABLES
    user_states,    \* StateManager.user_states   : dict user_id -> UserState
    user_contexts,  \* StateManager.user_contexts : dict user_id -> dict key -> value
    call,           \* the StateManager method called last, with its arguments
    users,          \* table users         : user_id -> row
    channels,       \* table channels      : the rows in id order
    sessions,       \* table user_sessions : sequence of rows
    frozen_cache,   \* table frozen_cache  : sequence of rows
    last_cached,    \* history: (channel_id, phone_number) -> the latest value cached and when
    temp_files,     \* the files under data/temp
    now,            \* CURRENT_TIMESTAMP
    reply,          \* the handler that ran last: its user, the kind of event, the message sent
    tasks           \* the text handlers suspended at a store call: task -> position and locals

smvars == <<user_states, user_contexts, call>>

dbvars == <<users, channels, sessions, frozen_cache>>

vars == <<user_states, user_contexts, call, users, channels, sessions, frozen_cache, last_cached,
          temp_files, now, reply, tasks>>

(***************************************************************************)
(* Values                                                                  *)
(***************************************************************************)

\* Python None as a value held in, or returned from, a dict
None == [t |-> "none", v |-> <<>>]
\* a Python str value
Str(s) == [t |-> "str", v |-> s]
\* a Python list value
List(l) == [t |-> "list", v |-> l]

\* the key argument left at its default (key=None)
NoKey == "None"

\* the context argument of set_state left at its default (context=None)
NoCtx == [given |-> FALSE, d |-> <<>>]
\* a dict passed as the context argument of set_state
Ctx(d) == [given |-> TRUE, d |-> d]

\* UserState members
IDLE == "idle"
CHANNEL_SETUP == "channel_setup"
CHANNEL_EDIT == "channel_edit"
SESSION_UPLOAD == "session_upload"
WITHDRAW_PROCESSING == "withdraw_processing"
ADMIN_COMMAND == "admin_command"
FILE_UPLOAD == "file_upload"

UserState == {IDLE, CHANNEL_SETUP, CHANNEL_EDIT, SESSION_UPLOAD,
              WITHDRAW_PROCESSING, ADMIN_COMMAND, FILE_UPLOAD}

\* user ids of the model
Users == {1, 2}

(***************************************************************************)
(* Dictionaries: a dict is a function whose domain is its key set          *)
(***************************************************************************)

EmptyDict == <<>>

\* d[k] = v
DictSet(d, k, v) == [x \in (DOMAIN d) \cup {k} |-> IF x = k THEN v ELSE d[x]]

\* d.pop(k, None)
DictPop(d, k) == [x \in (DOMAIN d) \ {k} |-> d[x]]

\* d.update(e)
DictUpdate(d, e) == [x \in (DOMAIN d) \cup (DOMAIN e) |-> IF x \in DOMAIN e THEN e[x] ELSE d[x]]

\* d.get(k, default)
DictGet(d, k, default) == IF k \in DOMAIN d THEN d[k] ELSE default

(***************************************************************************)
(* Text: a Python str is a sequence of one-character strings               *)
(***************************************************************************)

Digit == {"0", "1", "2", "3", "4", "5", "6", "7", "8", "9"}

LowerLetters == <<"a", "b", "c", "d", "e", "f", "g", "h", "i", "j", "k", "l", "m",
                  "n", "o", "p", "q", "r", "s", "t", "u", "v", "w", "x", "y", "z">>

UpperLetters == <<"A", "B", "C", "D", "E", "F", "G", "H", "I", "J", "K", "L", "M",
                  "N", "O", "P", "Q", "R", "S", "T", "U", "V", "W", "X", "Y", "Z">>

\* the characters Python's \s and str.strip() treat as white space
Whitespace == {" ", "\t", "\n", "\r", "\f"}

IsLower(c) == \E i \in DOMAIN LowerLetters : LowerLetters[i] = c

IsUpper(c) == \E i \in DOMAIN UpperLetters : UpperLetters[i] = c

\* [a-zA-Z0-9_]
WordChar ==
    {LowerLetters[i] : i \in DOMAIN LowerLetters} \cup
    {UpperLetters[i] : i \in DOMAIN UpperLetters} \cup Digit \cup {"_"}

\* str.lower() of one character
LowerChar(c) ==
    IF IsUpper(c)
    THEN LowerLetters[CHOOSE i \in DOMAIN UpperLetters : UpperLetters[i] = c]
    ELSE c

\* str.lower()
Lower(s) == [i \in DOMAIN s |-> LowerChar(s[i])]

\* str.endswith(suffix)
EndsWith(s, suffix) ==
    /\ Len(s) >= Len(suffix)
    /\ SubSeq(s, Len(s) - Len(suffix) + 1, Len(s)) = suffix

\* str.endswith(tuple of suffixes)
EndsWithAny(s, suffixes) == \E x \in suffixes : EndsWith(s, x)

\* the length of the longest run of characters satisfying a class, from index i
RECURSIVE RunLen(_, _, _)
RunLen(s, i, class) ==
    IF i <= Len(s) /\ s[i] \in class THEN 1 + RunLen(s, i + 1, class) ELSE 0

\* the length of the longest run of characters satisfying a class, back from index i
RECURSIVE RunLenBack(_, _, _)
RunLenBack(s, i, class) ==
    IF i >= 1 /\ s[i] \in class THEN 1 + RunLenBack(s, i - 1, class) ELSE 0

\* str.strip()
Strip(s) ==
    LET lead == RunLen(s, 1, Whitespace)
    IN  IF lead = Len(s) THEN <<>>
        ELSE SubSeq(s, lead + 1, Len(s) - RunLenBack(s, Len(s), Whitespace))

\* n copies of the character c
Rep(c, n) == [i \in 1..n |-> c]

(***************************************************************************)
(* Phone number extraction (MessageHandler._extract_phone_numbers)         *)
(***************************************************************************)

\* [-\s]
Separator == {"-"} \cup Whitespace

\* a cleaning that also drops the last character of the match
Clean_drop_last(match) ==
    LET c == SelectSeq(match, LAMBDA x : x \notin Separator)
    IN  IF c = <<>> THEN c ELSE SubSeq(c, 1, Len(c) - 1)

\* re.sub(r'[-\s]', '', match)
Clean(match) == SelectSeq(match, LAMBDA c : c \notin Separator)

\* the length of the match of \+\d{10,15} at index i, 0 when there is none
MatchPlus(s, i) ==
    IF i <= Len(s) /\ s[i] = "+" /\ RunLen(s, i + 1, Digit) >= 10
    THEN 1 + (IF RunLen(s, i + 1, Digit) > 15 THEN 15 ELSE RunLen(s, i + 1, Digit))
    ELSE 0

\* the length of the match of \d{10,15} at index i, 0 when there is none
MatchBare(s, i) ==
    IF RunLen(s, i, Digit) >= 10
    THEN (IF RunLen(s, i, Digit) > 15 THEN 15 ELSE RunLen(s, i, Digit))
    ELSE 0

\* the length of the match of \d{1,4}[-\s]\d{3,4}[-\s]\d{3,4}[-\s]\d{3,4} at
\* index i, 0 when there is none: a cluster that a separator must follow is the
\* whole digit run, the last cluster is greedy
MatchGrouped(s, i) ==
    LET r1 == RunLen(s, i, Digit)
        p2 == i + r1 + 1
        r2 == RunLen(s, p2, Digit)
        p3 == p2 + r2 + 1
        r3 == RunLen(s, p3, Digit)
        p4 == p3 + r3 + 1
        r4 == RunLen(s, p4, Digit)
    IN  IF /\ r1 \in 1..4
           /\ p2 - 1 <= Len(s) /\ s[p2 - 1] \in Separator
           /\ r2 \in 3..4
           /\ p3 - 1 <= Len(s) /\ s[p3 - 1] \in Separator
           /\ r3 \in 3..4
           /\ p4 - 1 <= Len(s) /\ s[p4 - 1] \in Separator
           /\ r4 >= 3
        THEN (p4 - i) + (IF r4 > 4 THEN 4 ELSE r4)
        ELSE 0

\* the length of the match of one of the three patterns at index i
MatchAt(pattern, s, i) ==
    CASE pattern = "plus" -> MatchPlus(s, i)
      [] pattern = "bare" -> MatchBare(s, i)
      [] pattern = "grouped" -> MatchGrouped(s, i)

\* re.findall(pattern, text): the non-overlapping matches, scanning from index i;
\* each match is the leftmost one at or after the end of the previous match
RECURSIVE FindAll(_, _, _)
FindAll(pattern, s, i) ==
    LET starts == {j \in i..Len(s) : MatchAt(pattern, s, j) > 0}
    IN  IF starts = {} THEN <<>>
        ELSE LET j == CHOOSE x \in starts : \A y \in starts : x <= y
                 n == MatchAt(pattern, s, j)
             IN  <<SubSeq(s, j, j + n - 1)>> \o FindAll(pattern, s, j + n)

\* the cleaned matches of one pattern whose length is between 10 and 15
CleanedMatches(matches) ==
    SelectSeq([i \in DOMAIN matches |-> Clean(matches[i])],
              LAMBDA m : Len(m) >= 10 /\ Len(m) <= 15)

\* list(dict.fromkeys(l)): duplicates removed, first occurrences kept in order
RECURSIVE Unique(_)
Unique(l) ==
    IF l = <<>> THEN <<>>
    ELSE LET front == Unique(SubSeq(l, 1, Len(l) - 1))
             x == l[Len(l)]
         IN  IF \E i \in DOMAIN front : front[i] = x THEN front ELSE Append(front, x)

\* _extract_phone_numbers(text)
ExtractPhoneNumbers(text) ==
    Unique(CleanedMatches(FindAll("plus", text, 1))
           \o CleanedMatches(FindAll("bare", text, 1))
           \o CleanedMatches(FindAll("grouped", text, 1)))

(***************************************************************************)
(* Channel input parsing (MessageHandler._handle_channel_setup)            *)
(***************************************************************************)

\* the longest channel name accepted
MaxChannelNameLen == 100

\* the fewest digits that must follow -100 in a channel id
MinChannelIdDigits == 10

\* the tail \s+(.+)$ of both patterns, matched from index i of a stripped text:
\* the index the name starts at, 0 when the tail does not match ('.' does not
\* match a newline)
NameStart(t, i) ==
    LET ws == RunLen(t, i, Whitespace)
        j == i + ws
    IN  IF ws >= 1 /\ j <= Len(t) /\ \A k \in j..Len(t) : t[k] # "\n" THEN j ELSE 0

\* re.match(r'^@([a-zA-Z0-9_]+)\s+(.+)$', text): the index the name starts at, or 0
UsernameMatch(t) ==
    IF Len(t) >= 1 /\ t[1] = "@" /\ RunLen(t, 2, WordChar) >= 1
    THEN NameStart(t, 2 + RunLen(t, 2, WordChar))
    ELSE 0

\* slip: \d+ instead of \d{10,}, any number of digits after -100 is accepted
IdMatch_short(t) ==
    IF /\ Len(t) >= 4
       /\ SubSeq(t, 1, 4) = <<"-", "1", "0", "0">>
       /\ RunLen(t, 5, Digit) >= 1
    THEN NameStart(t, 5 + RunLen(t, 5, Digit))
    ELSE 0

\* re.match(r'^(-100\d{10,})\s+(.+)$', text): the index the name starts at, or 0
IdMatch(t) ==
    IF /\ Len(t) >= 4
       /\ SubSeq(t, 1, 4) = <<"-", "1", "0", "0">>
       /\ RunLen(t, 5, Digit) >= MinChannelIdDigits
    THEN NameStart(t, 5 + RunLen(t, 5, Digit))
    ELSE 0

\* the parse of a ChannelSetup text: "invalid", "too_long" or "ok" with the
\* channel reference and the channel name
ParseChannel(text) ==
    LET t == Strip(text)
        u == UsernameMatch(t)
        n == IdMatch(t)
        ref == IF u > 0 THEN SubSeq(t, 1, 1 + RunLen(t, 2, WordChar))
               ELSE SubSeq(t, 1, 4 + RunLen(t, 5, Digit))
        start == IF u > 0 THEN u ELSE n
        name == SubSeq(t, start, Len(t))
    IN  IF u = 0 /\ n = 0 THEN [kind |-> "invalid", channel_id |-> <<>>, channel_name |-> <<>>]
        ELSE IF Len(name) > MaxChannelNameLen
             THEN [kind |-> "too_long", channel_id |-> ref, channel_name |-> name]
             ELSE [kind |-> "ok", channel_id |-> ref, channel_name |-> name]

(***************************************************************************)
(* StateManager (core/state_manager.py)                                    *)
(***************************************************************************)

\* truth value of a dict: `if context:` is false for None and for {}
TruthyCtx(c) == c.given /\ DOMAIN c.d # {}

\* truth value of a key argument: `if key:` is false for None and for ""
TruthyKey(k) == k # NoKey /\ k # ""

\* the dictionaries after set_state(user_id, state, context)
SetStateStates(us, user_id, state) == DictSet(us, user_id, state)

\* slip: the given context replaces the bag instead of being merged into it
SetStateContexts_replace(uc, user_id, context) ==
    IF TruthyCtx(context) THEN DictSet(uc, user_id, context.d) ELSE uc

SetStateContexts(uc, user_id, context) ==
    IF TruthyCtx(context)
    THEN DictSet(uc, user_id, DictUpdate(DictGet(uc, user_id, EmptyDict), context.d))
    ELSE uc

\* get_state(user_id)
GetStateIn(us, user_id) == DictGet(us, user_id, IDLE)

GetState(user_id) == GetStateIn(user_states, user_id)

\* the dictionaries after clear_state(user_id)
ClearStateStates(us, user_id) == DictPop(us, user_id)

\* slip: the whole context dictionary is dropped, for every user
ClearStateContexts_all(uc, user_id) == EmptyDict

\* slip: the context bag is left behind
ClearStateContexts_keep(uc, user_id) == uc

ClearStateContexts(uc, user_id) == DictPop(uc, user_id)

\* get_context(user_id, key): a value, the whole bag as a List-free dict, or None
GetContextIn(uc, user_id, key) ==
    IF user_id \notin DOMAIN uc THEN None
    ELSE IF TruthyKey(key) THEN DictGet(uc[user_id], key, None)
    ELSE [t |-> "dict", v |-> uc[user_id]]

GetContext(user_id, key) == GetContextIn(user_contexts, user_id, key)

\* the context dictionary after set_context(user_id, key, value)
SetContextContexts(uc, user_id, key, value) ==
    DictSet(uc, user_id, DictSet(DictGet(uc, user_id, EmptyDict), key, value))

\* the context dictionary after clear_context(user_id, key)
ClearContextContexts(uc, user_id, key) ==
    IF user_id \notin DOMAIN uc THEN uc
    ELSE IF TruthyKey(key) THEN DictSet(uc, user_id, DictPop(uc[user_id], key))
    ELSE DictSet(uc, user_id, EmptyDict)

\* is_state(user_id, state)
IsState(user_id, state) == GetState(user_id) = state

(***************************************************************************)
(* Config (core/config.py)                                                 *)
(***************************************************************************)

\* ADMIN_IDS of the environment
AdminIds == {1}

\* Config.is_admin(user_id)
IsAdmin(user_id) == user_id \in AdminIds

MaxChannelsFree == 5

MaxChannelsPremium == 100

(***************************************************************************)
(* DatabaseManager (core/database.py): each operation as the table it      *)
(* leaves, or the value it returns                                         *)
(***************************************************************************)

\* register_user: INSERT OR REPLACE writes a fresh row, the columns it does not
\* name take their defaults
RegisterUser(us, user_id, t) ==
    DictSet(us, user_id, [is_premium |-> FALSE, registered_at |-> t, last_active |-> t])

\* is_user_registered
IsUserRegistered(us, user_id) == user_id \in DOMAIN us

\* update_user_activity: UPDATE ... WHERE user_id = ?
UpdateUserActivity(us, user_id, t) ==
    IF user_id \in DOMAIN us THEN [us EXCEPT ![user_id].last_active = t] ELSE us

\* set_premium_status: UPDATE ... WHERE user_id = ?
SetPremiumStatus(us, user_id, is_premium) ==
    IF user_id \in DOMAIN us THEN [us EXCEPT ![user_id].is_premium = is_premium] ELSE us

\* is_premium_user reading the store before the allowlist is looked at
IsPremiumUserResult_store_first(us, user_id, read_ok) ==
    IF ~read_ok THEN "raised"
    ELSE IF user_id \in DOMAIN us /\ us[user_id].is_premium THEN "True"
    ELSE IF IsAdmin(user_id) THEN "True"
    ELSE IF user_id \notin DOMAIN us THEN "None"
    ELSE "False"

\* what is_premium_user returns: True for an id of the allowlist, before the
\* store is opened; else `result and result[0] == 1`, which is None without a
\* row; read_ok: the read goes through, else the method raises
IsPremiumUserResult(us, user_id, read_ok) ==
    IF IsAdmin(user_id) THEN "True"
    ELSE IF ~read_ok THEN "raised"
    ELSE IF user_id \notin DOMAIN us THEN "None"
    ELSE IF us[user_id].is_premium THEN "True"
    ELSE "False"

\* is_premium_user as a condition: the allowlist first, then the stored flag
IsPremiumUser(us, user_id) == IsPremiumUserResult(us, user_id, TRUE) = "True"

\* add_channel: INSERT with the next AUTOINCREMENT id
AddChannel(ch, user_id, channel_id, channel_name) ==
    Append(ch, [id |-> Len(ch) + 1, user_id |-> user_id, channel_id |-> channel_id,
                channel_name |-> channel_name, is_active |-> TRUE])

\* get_user_channels without the test of is_active
GetUserChannels_all(ch, user_id) == SelectSeq(ch, LAMBDA r : r.user_id = user_id)

\* get_user_channels: the active rows of the user
GetUserChannels(ch, user_id) ==
    SelectSeq(ch, LAMBDA r : r.user_id = user_id /\ r.is_active)

\* remove_channel without the test of the owner
RemoveChannel_any(ch, user_id, channel_db_id) ==
    [i \in DOMAIN ch |->
        IF ch[i].id = channel_db_id THEN [ch[i] EXCEPT !.is_active = FALSE] ELSE ch[i]]

\* remove_channel: UPDATE ... SET is_active = 0 WHERE id = ? AND user_id = ?
RemoveChannel(ch, user_id, channel_db_id) ==
    [i \in DOMAIN ch |->
        IF ch[i].id = channel_db_id /\ ch[i].user_id = user_id
        THEN [ch[i] EXCEPT !.is_active = FALSE]
        ELSE ch[i]]

\* the rows of user_sessions whose primary key is user_id
SessionRows(ss, user_id) == SelectSeq(ss, LAMBDA r : r.user_id = user_id)

\* store_session as a plain INSERT: a row is added, none is replaced
StoreSession_insert(ss, user_id, session_data, phone_number, t) ==
    Append(ss, [user_id |-> user_id, session_data |-> session_data,
                phone_number |-> phone_number, uploaded_at |-> t, is_active |-> TRUE])

\* store_session: INSERT OR REPLACE deletes the rows that conflict on the
\* primary key user_id, then inserts a fresh row (is_active DEFAULT 1)
StoreSession(ss, user_id, session_data, phone_number, t) ==
    Append(SelectSeq(ss, LAMBDA r : r.user_id # user_id),
           [user_id |-> user_id, session_data |-> session_data,
            phone_number |-> phone_number, uploaded_at |-> t, is_active |-> TRUE])

\* get_session: SELECT session_data ... WHERE user_id = ? AND is_active = 1;
\* fetchone, then result[0] if result else None
GetSession(ss, user_id) ==
    LET result == SelectSeq(ss, LAMBDA r : r.user_id = user_id /\ r.is_active)
    IN  IF result # <<>> THEN [t |-> "bytes", v |-> result[1].session_data] ELSE None

\* has_session
HasSession(ss, user_id) == GetSession(ss, user_id) # None

\* get_user_session: the query names the column created_at, which user_sessions
\* does not have; the error is caught and None is returned
GetUserSession(ss, user_id) == None

\* remove_user_session as a DELETE of the user's row
RemoveUserSession_delete(ss, user_id) == SelectSeq(ss, LAMBDA r : r.user_id # user_id)

\* remove_user_session: UPDATE ... SET is_active = 0 WHERE user_id = ?
RemoveUserSession(ss, user_id) ==
    [i \in DOMAIN ss |->
        IF ss[i].user_id = user_id THEN [ss[i] EXCEPT !.is_active = FALSE] ELSE ss[i]]

\* the length of '-1 hour' in the seconds of CURRENT_TIMESTAMP
OneHour == 3600

\* cache_frozen_result as a plain INSERT: a row is added, none is replaced
CacheFrozenResult_insert(fc, channel_id, phone_number, is_frozen, t) ==
    Append(fc, [channel_id |-> channel_id, phone_number |-> phone_number,
                is_frozen |-> is_frozen, checked_at |-> t])

\* cache_frozen_result: INSERT OR REPLACE deletes the rows that conflict on
\* UNIQUE(channel_id, phone_number), then inserts a row checked at t
CacheFrozenResult(fc, channel_id, phone_number, is_frozen, t) ==
    Append(SelectSeq(fc, LAMBDA r : ~(r.channel_id = channel_id
                                      /\ r.phone_number = phone_number)),
           [channel_id |-> channel_id, phone_number |-> phone_number,
            is_frozen |-> is_frozen, checked_at |-> t])

\* get_cached_result without the test of checked_at
GetCachedResult_no_expiry(fc, channel_id, phone_number, t) ==
    LET result == SelectSeq(fc, LAMBDA r : r.channel_id = channel_id
                                           /\ r.phone_number = phone_number)
    IN  IF result # <<>> THEN [t |-> "bool", v |-> <<result[1].is_frozen>>] ELSE None

\* get_cached_result: SELECT is_frozen ... WHERE channel_id = ? AND
\* phone_number = ? AND datetime(checked_at) > datetime('now', '-1 hour');
\* fetchone, then result[0] if result else None
GetCachedResult(fc, channel_id, phone_number, t) ==
    LET result == SelectSeq(fc, LAMBDA r : /\ r.channel_id = channel_id
                                           /\ r.phone_number = phone_number
                                           /\ r.checked_at > t - OneHour)
    IN  IF result # <<>> THEN [t |-> "bool", v |-> <<result[1].is_frozen>>] ELSE None

(***************************************************************************)
(* Handlers: each handler maps the program state S (the two StateManager   *)
(* dictionaries, the tables, the temp directory) to the state it leaves,   *)
(* with the message it sends in S.msg                                      *)
(***************************************************************************)

Cur == [us |-> user_states, uc |-> user_contexts, users |-> users,
        channels |-> channels, sessions |-> sessions, temp |-> temp_files,
        msg |-> "none"]

\* state_manager.set_state(user_id, state)
WithState(S, user_id, state) ==
    [S EXCEPT !.us = SetStateStates(S.us, user_id, state),
              !.uc = SetStateContexts(S.uc, user_id, NoCtx)]

\* state_manager.clear_state(user_id)
Cleared(S, user_id) ==
    [S EXCEPT !.us = ClearStateStates(S.us, user_id),
              !.uc = ClearStateContexts(S.uc, user_id)]

\* state_manager.set_context(user_id, key, value)
WithCtx(S, user_id, key, value) ==
    [S EXCEPT !.uc = SetContextContexts(S.uc, user_id, key, value)]

\* state_manager.clear_context(user_id, key)
WithoutCtx(S, user_id, key) ==
    [S EXCEPT !.uc = ClearContextContexts(S.uc, user_id, key)]

\* the message sent to the user
Msg(S, m) == [S EXCEPT !.msg = m]

\* truth value of a context value: None and the empty list or string are false
Truthy(x) == x # None /\ x.v # <<>>

\* a callback with fixed data, and the callback remove_channel_<id>
Cb(name) == [name |-> name, id |-> 0]
RemoveCb(id) == [name |-> "remove_channel_", id |-> id]

\* the callback data that start with admin_
AdminData == {"admin_users", "admin_stats", "admin_settings", "admin_logs",
              "admin_add_premium", "admin_remove_premium", "admin_user_stats",
              "admin_panel", "admin_cleanup", "admin_restart", "admin_full_logs"}

\* _show_main_menu returning to Idle through set_state, which keeps the context
ShowMainMenu_set_idle(S, user_id) == Msg(WithState(S, user_id, IDLE), "main_menu")

\* CallbackHandler._show_main_menu
ShowMainMenu(S, user_id) == Msg(Cleared(S, user_id), "main_menu")

\* CallbackHandler._handle_session_upload
HandleSessionUpload(S, user_id) ==
    Msg(WithState(S, user_id, SESSION_UPLOAD), "upload_session_prompt")

\* CallbackHandler._handle_remove_session
HandleRemoveSession(S, user_id) ==
    IF GetUserSession(S.sessions, user_id) = None
    THEN Msg(S, "no_session_found")
    ELSE Msg(S, "confirm_remove_session")

\* CallbackHandler._confirm_remove_session; db_ok: the store write succeeds
ConfirmRemoveSession(S, user_id, db_ok) ==
    Msg([S EXCEPT !.sessions = IF db_ok THEN RemoveUserSession(S.sessions, user_id)
                               ELSE S.sessions],
        "session_removed")

\* CallbackHandler._handle_add_channel
HandleAddChannel(S, user_id) ==
    LET is_premium == IsPremiumUser(S.users, user_id)
        chans == GetUserChannels(S.channels, user_id)
        max_channels == IF is_premium THEN MaxChannelsPremium ELSE MaxChannelsFree
    IN  IF Len(chans) >= max_channels
        THEN Msg(S, "channel_limit_reached")
        ELSE Msg(WithState(S, user_id, CHANNEL_SETUP), "add_channel_prompt")

\* CallbackHandler._handle_remove_channel
HandleRemoveChannel(S, user_id, channel_db_id, db_ok) ==
    IF db_ok
    THEN Msg([S EXCEPT !.channels = RemoveChannel(S.channels, user_id, channel_db_id)],
             "channel_removed")
    ELSE Msg(S, "channel_remove_failed")

\* the transfer of detected numbers made by _show_frozen_menu and _show_withdraw_menu
TransferDetected(S, user_id) ==
    WithCtx(WithCtx(S, user_id, "bulk_numbers", GetContextIn(S.uc, user_id, "detected_numbers")),
            user_id, "source_file", GetContextIn(S.uc, user_id, "detected_file"))

\* CallbackHandler._show_frozen_menu
ShowFrozenMenu(S, user_id) ==
    IF Truthy(GetContextIn(S.uc, user_id, "detected_numbers"))
    THEN Msg(TransferDetected(S, user_id), "frozen_menu_detected")
    ELSE Msg(S, "frozen_menu")

\* CallbackHandler._show_withdraw_menu
ShowWithdrawMenu(S, user_id) ==
    IF Truthy(GetContextIn(S.uc, user_id, "detected_numbers"))
    THEN Msg(TransferDetected(S, user_id), "withdraw_menu_detected")
    ELSE Msg(S, "withdraw_menu")

\* CallbackHandler._handle_single_frozen_check
HandleSingleFrozenCheck(S, user_id) ==
    Msg(WithCtx(WithState(S, user_id, FILE_UPLOAD), user_id, "check_type", Str("single")),
        "single_check_prompt")

\* CallbackHandler._handle_bulk_frozen_check
HandleBulkFrozenCheck(S, user_id) ==
    Msg(WithCtx(WithState(S, user_id, FILE_UPLOAD), user_id, "check_type", Str("bulk")),
        "bulk_check_prompt")

\* the simulated results of _process_bulk_frozen for a list of numbers
BulkFrozenResults(numbers) ==
    [total |-> Len(numbers),
     frozen |-> Len(numbers) \div 3,
     active |-> Len(numbers) - (Len(numbers) \div 3)]

\* the simulated results of _confirm_withdraw_processing for a list of numbers
WithdrawResults(numbers) ==
    [processed |-> Len(numbers),
     successful |-> Len(numbers) - 2,
     failed |-> 2]

\* CallbackHandler._process_bulk_frozen
ProcessBulkFrozen(S, user_id) ==
    IF ~Truthy(GetContextIn(S.uc, user_id, "bulk_numbers"))
    THEN Msg(S, "no_numbers_found")
    ELSE IF GetUserChannels(S.channels, user_id) = <<>>
         THEN Msg(S, "no_channels_found")
         ELSE Msg(WithoutCtx(WithoutCtx(S, user_id, "bulk_numbers"), user_id, "source_file"),
                  "frozen_check_complete")

\* CallbackHandler._process_bulk_withdraw
ProcessBulkWithdraw(S, user_id) ==
    IF Truthy(GetContextIn(S.uc, user_id, "bulk_numbers"))
    THEN Msg(WithCtx(WithState(S, user_id, WITHDRAW_PROCESSING), user_id,
                     "withdraw_numbers", GetContextIn(S.uc, user_id, "bulk_numbers")),
             "withdraw_started")
    ELSE Msg(S, "no_numbers_found")

\* CallbackHandler._start_withdraw_processing
StartWithdrawProcessing(S, user_id) ==
    Msg(WithState(S, user_id, WITHDRAW_PROCESSING), "withdraw_mode")

\* _confirm_withdraw_processing dropping the collected numbers only
ConfirmWithdrawProcessing_keep_state(S, user_id) ==
    IF ~Truthy(GetContextIn(S.uc, user_id, "withdraw_numbers"))
    THEN Msg(S, "no_numbers_collected")
    ELSE Msg(WithoutCtx(S, user_id, "withdraw_numbers"), "withdraw_complete")

\* CallbackHandler._confirm_withdraw_processing
ConfirmWithdrawProcessing(S, user_id) ==
    IF ~Truthy(GetContextIn(S.uc, user_id, "withdraw_numbers"))
    THEN Msg(S, "no_numbers_collected")
    ELSE Msg(WithoutCtx(Cleared(S, user_id), user_id, "withdraw_numbers"),
             "withdraw_complete")

\* CallbackHandler._handle_admin_callback
HandleAdminCallback(S, user_id, data) ==
    IF ~IsAdmin(user_id) THEN Msg(S, "access_denied")
    ELSE IF data \in {"admin_users", "admin_stats", "admin_settings", "admin_logs"}
         THEN Msg(S, data)
         ELSE Msg(S, "none")

\* the routing of CallbackHandler.handle_callback, after the activity update
RouteCallback(S, user_id, cb, db_ok) ==
    CASE cb.name = "main_menu" -> ShowMainMenu(S, user_id)
      [] cb.name \in {"help", "view_status", "premium_info", "session_menu",
                      "manage_channels"} -> Msg(S, cb.name)
      [] cb.name = "upload_session" -> HandleSessionUpload(S, user_id)
      [] cb.name = "remove_session" -> HandleRemoveSession(S, user_id)
      [] cb.name = "confirm_remove_session" -> ConfirmRemoveSession(S, user_id, db_ok)
      [] cb.name = "add_channel" -> HandleAddChannel(S, user_id)
      [] cb.name = "remove_channel_" -> HandleRemoveChannel(S, user_id, cb.id, db_ok)
      [] cb.name = "check_frozen" -> ShowFrozenMenu(S, user_id)
      [] cb.name = "frozen_single" -> HandleSingleFrozenCheck(S, user_id)
      [] cb.name = "frozen_bulk" -> HandleBulkFrozenCheck(S, user_id)
      [] cb.name = "check_bulk_frozen" -> ProcessBulkFrozen(S, user_id)
      [] cb.name = "process_withdraw" -> ShowWithdrawMenu(S, user_id)
      [] cb.name = "process_bulk_withdraw" -> ProcessBulkWithdraw(S, user_id)
      [] cb.name = "start_withdraw" -> StartWithdrawProcessing(S, user_id)
      [] cb.name = "confirm_withdraw" -> ConfirmWithdrawProcessing(S, user_id)
      [] cb.name \in AdminData -> HandleAdminCallback(S, user_id, cb.name)
      [] OTHER -> Msg(S, "unknown_action")

\* CallbackHandler.handle_callback; act_ok: the activity update does not raise
CallbackResult(S, user_id, cb, t, act_ok, db_ok) ==
    IF ~act_ok THEN Msg(S, "error")
    ELSE RouteCallback([S EXCEPT !.users = UpdateUserActivity(S.users, user_id, t)],
                       user_id, cb, db_ok)

\* CommandHandler.start_command
StartResult(S, user_id, t, act_ok, db_ok) ==
    IF ~act_ok THEN Msg(S, "error")
    ELSE LET S1 == Cleared([S EXCEPT !.users = UpdateUserActivity(S.users, user_id, t)],
                           user_id)
         IN  IF ~IsUserRegistered(S1.users, user_id)
             THEN Msg([S1 EXCEPT !.users = IF db_ok THEN RegisterUser(S1.users, user_id, t)
                                           ELSE S1.users],
                      "welcome")
             ELSE Msg(S1, "dashboard")

\* CommandHandler.help_command, status_command and admin_command
CommandResult(S, user_id, name) ==
    CASE name = "help" -> Msg(S, "help")
      [] name = "status" ->
            IF IsUserRegistered(S.users, user_id) THEN Msg(S, "status")
            ELSE Msg(S, "please_start")
      [] OTHER -> IF IsAdmin(user_id) THEN Msg(S, "admin_panel") ELSE Msg(S, "access_denied")

\* slip: the duplicate check compares the references as written
HandleChannelSetup_exact(S, user_id, text, db_ok) ==
    LET p == ParseChannel(text)
        chans == GetUserChannels(S.channels, user_id)
    IN  IF p.kind = "invalid" THEN Msg(S, "invalid_format")
        ELSE IF p.kind = "too_long" THEN Msg(S, "name_too_long")
        ELSE IF \E i \in DOMAIN chans : chans[i].channel_id = p.channel_id
             THEN Msg(S, "channel_already_added")
        ELSE IF db_ok
             THEN Msg(Cleared([S EXCEPT !.channels =
                                  AddChannel(S.channels, user_id, p.channel_id, p.channel_name)],
                              user_id),
                      "channel_added")
             ELSE Msg(S, "channel_add_failed")

\* slip: the state is cleared whether or not add_channel succeeded
HandleChannelSetup_always_clear(S, user_id, text, db_ok) ==
    LET p == ParseChannel(text)
        chans == GetUserChannels(S.channels, user_id)
    IN  IF p.kind = "invalid" THEN Msg(S, "invalid_format")
        ELSE IF p.kind = "too_long" THEN Msg(S, "name_too_long")
        ELSE IF \E i \in DOMAIN chans : Lower(chans[i].channel_id) = Lower(p.channel_id)
             THEN Msg(S, "channel_already_added")
        ELSE IF db_ok
             THEN Msg(Cleared([S EXCEPT !.channels =
                                  AddChannel(S.channels, user_id, p.channel_id, p.channel_name)],
                              user_id),
                      "channel_added")
             ELSE Msg(Cleared(S, user_id), "channel_add_failed")

\* MessageHandler._handle_channel_setup
HandleChannelSetup(S, user_id, text, db_ok) ==
    LET p == ParseChannel(text)
        chans == GetUserChannels(S.channels, user_id)
    IN  IF p.kind = "invalid" THEN Msg(S, "invalid_format")
        ELSE IF p.kind = "too_long" THEN Msg(S, "name_too_long")
        ELSE IF \E i \in DOMAIN chans : Lower(chans[i].channel_id) = Lower(p.channel_id)
             THEN Msg(S, "channel_already_added")
        ELSE IF db_ok
             THEN Msg(Cleared([S EXCEPT !.channels =
                                  AddChannel(S.channels, user_id, p.channel_id, p.channel_name)],
                              user_id),
                      "channel_added")
             ELSE Msg(S, "channel_add_failed")

\* _handle_withdraw_message adding the numbers to those collected before
HandleWithdrawMessage_merge(S, user_id, text) ==
    LET phone_numbers == ExtractPhoneNumbers(text)
        existing == GetContextIn(S.uc, user_id, "withdraw_numbers")
        existing_numbers == IF Truthy(existing) THEN existing.v ELSE <<>>
    IN  IF phone_numbers = <<>> THEN Msg(S, "no_numbers_in_message")
        ELSE Msg(WithCtx(S, user_id, "withdraw_numbers",
                         List(Unique(existing_numbers \o phone_numbers))),
                 "numbers_found")

\* MessageHandler._handle_withdraw_message
HandleWithdrawMessage(S, user_id, text) ==
    LET phone_numbers == ExtractPhoneNumbers(text)
    IN  IF phone_numbers = <<>> THEN Msg(S, "no_numbers_in_message")
        ELSE Msg(WithCtx(S, user_id, "withdraw_numbers", List(phone_numbers)),
                 "numbers_found")

\* the value of a non-empty digit string
RECURSIVE DigitsValue(_)
DigitsValue(d) ==
    IF d = <<>> THEN 0
    ELSE 10 * DigitsValue(SubSeq(d, 1, Len(d) - 1))
         + (CHOOSE n \in 0..9 : <<"0", "1", "2", "3", "4", "5", "6", "7", "8", "9">>[n + 1] = d[Len(d)])

\* int(text.strip()): an optional sign, then decimal digits with single
\* underscores allowed between them; ok is false for ValueError
ParseInt(text) ==
    LET t == Strip(text)
        signed == Len(t) >= 1 /\ t[1] \in {"+", "-"}
        d == IF signed THEN SubSeq(t, 2, Len(t)) ELSE t
        digits == SelectSeq(d, LAMBDA c : c # "_")
    IN  IF /\ d # <<>>
           /\ \A i \in DOMAIN d : d[i] \in Digit \cup {"_"}
           /\ d[1] # "_" /\ d[Len(d)] # "_"
           /\ \A i \in 1..(Len(d) - 1) : ~(d[i] = "_" /\ d[i + 1] = "_")
        THEN [ok |-> TRUE,
              value |-> IF signed /\ t[1] = "-" THEN 0 - DigitsValue(digits)
                        ELSE DigitsValue(digits)]
        ELSE [ok |-> FALSE, value |-> 0]

\* _process_add_premium and _process_remove_premium clearing the state only
\* when the store reported success
ProcessPremium_keep_on_failure(S, user_id, text, is_premium, db_ok) ==
    LET target == ParseInt(text)
    IN  IF ~target.ok THEN Msg(S, "invalid_user_id")
        ELSE IF db_ok
             THEN Msg(Cleared([S EXCEPT !.users =
                                  SetPremiumStatus(S.users, target.value, is_premium)],
                              user_id),
                      IF is_premium THEN "premium_granted" ELSE "premium_removed")
             ELSE Msg(S, "premium_failed")

\* MessageHandler._process_add_premium (is_premium true) and _process_remove_premium
ProcessPremium(S, user_id, text, is_premium, db_ok) ==
    LET target == ParseInt(text)
    IN  IF ~target.ok THEN Msg(S, "invalid_user_id")
        ELSE IF db_ok
             THEN Msg(Cleared([S EXCEPT !.users =
                                  SetPremiumStatus(S.users, target.value, is_premium)],
                              user_id),
                      IF is_premium THEN "premium_granted" ELSE "premium_removed")
             ELSE Msg(Cleared(S, user_id), "premium_failed")

\* _handle_admin_input trusting the state: the allowlist is not looked at
HandleAdminInput_trusting(S, user_id, text, db_ok) ==
    LET admin_action == GetContextIn(S.uc, user_id, "admin_action")
    IN  IF admin_action = Str("add_premium")
        THEN ProcessPremium(S, user_id, text, TRUE, db_ok)
        ELSE IF admin_action = Str("remove_premium")
             THEN ProcessPremium(S, user_id, text, FALSE, db_ok)
             ELSE Msg(Cleared(S, user_id), "unknown_admin_action")

\* MessageHandler._handle_admin_input
HandleAdminInput(S, user_id, text, db_ok) ==
    IF ~IsAdmin(user_id) THEN Msg(Cleared(S, user_id), "access_denied")
    ELSE LET admin_action == GetContextIn(S.uc, user_id, "admin_action")
         IN  IF admin_action = Str("add_premium")
             THEN ProcessPremium(S, user_id, text, TRUE, db_ok)
             ELSE IF admin_action = Str("remove_premium")
                  THEN ProcessPremium(S, user_id, text, FALSE, db_ok)
                  ELSE Msg(Cleared(S, user_id), "unknown_admin_action")

\* _handle_default_message keeping the numbers it found
HandleDefaultMessage_keep(S, user_id, text) ==
    IF ExtractPhoneNumbers(text) # <<>>
    THEN Msg(WithCtx(S, user_id, "detected_numbers", List(ExtractPhoneNumbers(text))),
             "numbers_in_message")
    ELSE Msg(S, "not_sure")

\* MessageHandler._handle_default_message
HandleDefaultMessage(S, user_id, text) ==
    IF ExtractPhoneNumbers(text) # <<>> THEN Msg(S, "numbers_in_message")
    ELSE Msg(S, "not_sure")

\* slip: the registration check is missing
TextResult_open(S, user_id, text, db_ok) ==
    LET current_state == GetStateIn(S.us, user_id)
    IN  IF current_state = CHANNEL_SETUP THEN HandleChannelSetup(S, user_id, text, db_ok)
        ELSE IF current_state = WITHDRAW_PROCESSING THEN HandleWithdrawMessage(S, user_id, text)
        ELSE IF current_state = ADMIN_COMMAND THEN HandleAdminInput(S, user_id, text, db_ok)
        ELSE HandleDefaultMessage(S, user_id, text)

\* MessageHandler.handle_text
TextResult(S, user_id, text, db_ok) ==
    LET current_state == GetStateIn(S.us, user_id)
    IN  IF ~IsUserRegistered(S.users, user_id) THEN Msg(S, "please_start")
        ELSE IF current_state = CHANNEL_SETUP THEN HandleChannelSetup(S, user_id, text, db_ok)
        ELSE IF current_state = WITHDRAW_PROCESSING THEN HandleWithdrawMessage(S, user_id, text)
        ELSE IF current_state = ADMIN_COMMAND THEN HandleAdminInput(S, user_id, text, db_ok)
        ELSE HandleDefaultMessage(S, user_id, text)

(***************************************************************************)
(* Documents: file_name is the name sent (<<>> with has_name false for     *)
(* None), data the bytes of the file, is_zip whether the bytes are a       *)
(* readable archive, entries the archive's members in order                *)
(***************************************************************************)

Ext(x) == <<".">> \o x

SessionExt == {Ext(<<"s", "e", "s", "s", "i", "o", "n">>), Ext(<<"t", "d", "a", "t", "a">>),
               Ext(<<"j", "s", "o", "n">>)}
ZipExt == Ext(<<"z", "i", "p">>)
TxtExt == Ext(<<"t", "x", "t">>)
CsvExt == Ext(<<"c", "s", "v">>)

\* document.file_name.lower() if document.file_name else ""
FileNameLower(doc) == IF doc.has_name /\ doc.file_name # <<>> THEN Lower(doc.file_name) ELSE <<>>

\* the value of document.file_name
FileNameValue(doc) == IF doc.has_name THEN Str(doc.file_name) ELSE None

\* _process_zip_session taking the first entry whatever its name
ProcessZipSession_first_entry(doc) ==
    IF ~doc.is_zip \/ doc.entries = <<>> THEN None
    ELSE [t |-> "bytes", v |-> doc.entries[1].data]

\* MessageHandler._process_zip_session: the bytes of the first session entry, or None
ProcessZipSession(doc) ==
    LET session_files == SelectSeq(doc.entries,
                                   LAMBDA e : EndsWithAny(Lower(e.filename), SessionExt))
    IN  IF ~doc.is_zip THEN None
        ELSE IF session_files = <<>> THEN None
        ELSE IF ~session_files[1].readable THEN None
        ELSE [t |-> "bytes", v |-> session_files[1].data]

\* the numbers of the entries of an archive, entry after entry
RECURSIVE EntryNumbers(_)
EntryNumbers(entries) ==
    IF entries = <<>> THEN <<>>
    ELSE LET e == entries[Len(entries)]
         IN  EntryNumbers(SubSeq(entries, 1, Len(entries) - 1))
             \o (IF /\ ~e.is_dir
                    /\ EndsWithAny(Lower(e.filename), {TxtExt, CsvExt})
                    /\ e.readable
                 THEN ExtractPhoneNumbers(e.data)
                 ELSE <<>>)

\* _extract_numbers_from_zip giving up at the first entry that fails to read
ExtractNumbersFromZip_all_or_nothing(doc) ==
    IF ~doc.is_zip THEN <<>>
    ELSE IF \E i \in DOMAIN doc.entries :
               /\ EndsWithAny(Lower(doc.entries[i].filename), {TxtExt, CsvExt})
               /\ ~doc.entries[i].readable
         THEN <<>>
         ELSE Unique(EntryNumbers(doc.entries))

\* MessageHandler._extract_numbers_from_zip
ExtractNumbersFromZip(doc) ==
    IF ~doc.is_zip THEN <<>> ELSE Unique(EntryNumbers(doc.entries))

\* _handle_session_file clearing the state whether or not the store succeeded
HandleSessionFile_clear_always(S, user_id, doc, t, dl_ok, db_ok) ==
    LET filename == FileNameLower(doc)
        session_data == IF EndsWith(filename, ZipExt) THEN ProcessZipSession(doc)
                        ELSE [t |-> "bytes", v |-> doc.data]
    IN  IF ~EndsWithAny(filename, SessionExt \cup {ZipExt}) THEN Msg(S, "invalid_file_type")
        ELSE IF ~dl_ok THEN Msg(S, "session_error")
        ELSE IF Truthy(session_data)
             THEN Msg(Cleared([S EXCEPT !.sessions =
                                  IF db_ok
                                  THEN StoreSession(S.sessions, user_id, session_data.v,
                                                    filename, t)
                                  ELSE S.sessions],
                              user_id),
                      IF db_ok THEN "session_uploaded" ELSE "session_store_failed")
             ELSE Msg(S, "no_session_data")

\* MessageHandler._handle_session_file; dl_ok: the download succeeds
HandleSessionFile(S, user_id, doc, t, dl_ok, db_ok) ==
    LET filename == FileNameLower(doc)
        temp_file == <<user_id, doc.file_name>>
        session_data == IF EndsWith(filename, ZipExt) THEN ProcessZipSession(doc)
                        ELSE [t |-> "bytes", v |-> doc.data]
        S1 == [S EXCEPT !.temp = S.temp \cup {temp_file}]
        S2 == [S1 EXCEPT !.temp = S1.temp \ {temp_file}]
    IN  IF ~EndsWithAny(filename, SessionExt \cup {ZipExt}) THEN Msg(S, "invalid_file_type")
        ELSE IF ~dl_ok THEN Msg(S, "session_error")
        ELSE IF Truthy(session_data)
             THEN IF db_ok
                  THEN Msg(Cleared([S2 EXCEPT !.sessions =
                                       StoreSession(S2.sessions, user_id, session_data.v,
                                                    filename, t)],
                                   user_id),
                           "session_uploaded")
                  ELSE Msg(S2, "session_store_failed")
             ELSE Msg(S2, "no_session_data")

\* _handle_number_file with the gate of the smart detection: .txt, .csv, .zip
HandleNumberFile_wide_gate(S, user_id, doc, dl_ok) ==
    LET filename == FileNameLower(doc)
        phone_numbers == IF EndsWith(filename, ZipExt) THEN ExtractNumbersFromZip(doc)
                         ELSE ExtractPhoneNumbers(doc.data)
    IN  IF ~EndsWithAny(filename, {TxtExt, CsvExt, ZipExt})
        THEN Msg(S, "invalid_file_type_frozen")
        ELSE IF ~dl_ok THEN Msg(S, "file_error")
        ELSE IF phone_numbers = <<>> THEN Msg(S, "no_numbers_in_file")
        ELSE Msg(WithCtx(WithCtx(S, user_id, "bulk_numbers", List(phone_numbers)),
                         user_id, "source_file", FileNameValue(doc)),
                 "file_processed")

\* MessageHandler._handle_number_file
HandleNumberFile(S, user_id, doc, dl_ok) ==
    LET phone_numbers == ExtractPhoneNumbers(doc.data)
    IN  IF ~EndsWith(FileNameLower(doc), TxtExt) THEN Msg(S, "invalid_file_type_frozen")
        ELSE IF ~dl_ok THEN Msg(S, "file_error")
        ELSE IF phone_numbers = <<>> THEN Msg(S, "no_numbers_in_file")
        ELSE Msg(WithCtx(WithCtx(S, user_id, "bulk_numbers", List(phone_numbers)),
                         user_id, "source_file", FileNameValue(doc)),
                 "file_processed")

\* MessageHandler._handle_unexpected_file
HandleUnexpectedFile(S) == Msg(S, "file_received")

\* _handle_withdraw_file storing the numbers of the file alone
HandleWithdrawFile_replace(S, user_id, doc, dl_ok) ==
    LET phone_numbers == IF EndsWith(FileNameLower(doc), ZipExt)
                         THEN ExtractNumbersFromZip(doc)
                         ELSE ExtractPhoneNumbers(doc.data)
    IN  IF ~dl_ok THEN Msg(S, "file_error")
        ELSE IF phone_numbers = <<>> THEN Msg(S, "no_numbers_in_file")
        ELSE Msg(WithCtx(S, user_id, "withdraw_numbers", List(phone_numbers)),
                 "file_added_to_withdraw")

\* MessageHandler._handle_withdraw_file
HandleWithdrawFile(S, user_id, doc, dl_ok) ==
    LET phone_numbers == IF EndsWith(FileNameLower(doc), ZipExt)
                         THEN ExtractNumbersFromZip(doc)
                         ELSE ExtractPhoneNumbers(doc.data)
        existing == GetContextIn(S.uc, user_id, "withdraw_numbers")
        existing_numbers == IF Truthy(existing) THEN existing.v ELSE <<>>
    IN  IF ~dl_ok THEN Msg(S, "file_error")
        ELSE IF phone_numbers = <<>> THEN Msg(S, "no_numbers_in_file")
        ELSE Msg(WithCtx(S, user_id, "withdraw_numbers",
                         List(Unique(existing_numbers \o phone_numbers))),
                 "file_added_to_withdraw")

\* _handle_smart_file_detection entering SESSION_UPLOAD for a session file
HandleSmartFileDetection_enter(S, user_id, doc, dl_ok) ==
    LET filename == FileNameLower(doc)
        phone_numbers == IF EndsWith(filename, ZipExt) THEN ExtractNumbersFromZip(doc)
                         ELSE ExtractPhoneNumbers(doc.data)
    IN  IF EndsWithAny(filename, SessionExt)
        THEN Msg(WithState(S, user_id, SESSION_UPLOAD), "session_file_detected")
        ELSE IF EndsWithAny(filename, {TxtExt, CsvExt, ZipExt})
             THEN IF ~dl_ok THEN Msg(S, "error")
                  ELSE IF phone_numbers # <<>>
                       THEN Msg(WithCtx(WithCtx(S, user_id, "detected_numbers",
                                                List(phone_numbers)),
                                        user_id, "detected_file", FileNameValue(doc)),
                                "numbers_detected")
                       ELSE HandleUnexpectedFile(S)
             ELSE HandleUnexpectedFile(S)

\* MessageHandler._handle_smart_file_detection
HandleSmartFileDetection(S, user_id, doc, dl_ok) ==
    LET filename == FileNameLower(doc)
        phone_numbers == IF EndsWith(filename, ZipExt) THEN ExtractNumbersFromZip(doc)
                         ELSE ExtractPhoneNumbers(doc.data)
    IN  IF EndsWithAny(filename, SessionExt) THEN Msg(S, "session_file_detected")
        ELSE IF EndsWithAny(filename, {TxtExt, CsvExt, ZipExt})
             THEN IF ~dl_ok THEN Msg(S, "error")
                  ELSE IF phone_numbers # <<>>
                       THEN Msg(WithCtx(WithCtx(S, user_id, "detected_numbers",
                                                List(phone_numbers)),
                                        user_id, "detected_file", FileNameValue(doc)),
                                "numbers_detected")
                       ELSE HandleUnexpectedFile(S)
             ELSE HandleUnexpectedFile(S)

\* MessageHandler.handle_document
DocumentResult(S, user_id, doc, t, dl_ok, db_ok) ==
    LET current_state == GetStateIn(S.us, user_id)
    IN  IF ~IsUserRegistered(S.users, user_id) THEN Msg(S, "please_start")
        ELSE IF current_state = SESSION_UPLOAD
             THEN HandleSessionFile(S, user_id, doc, t, dl_ok, db_ok)
        ELSE IF current_state = FILE_UPLOAD THEN HandleNumberFile(S, user_id, doc, dl_ok)
        ELSE IF current_state = WITHDRAW_PROCESSING
             THEN IF EndsWithAny(FileNameLower(doc), {TxtExt, ZipExt})
                  THEN HandleWithdrawFile(S, user_id, doc, dl_ok)
                  ELSE HandleUnexpectedFile(S)
        ELSE HandleSmartFileDetection(S, user_id, doc, dl_ok)

(***************************************************************************)
(* The initial state: nothing stored, no user known                        *)
(***************************************************************************)

NoCall == [op |-> "none", user |-> 0, state |-> IDLE, context |-> NoCtx,
           key |-> NoKey, value |-> None, result |-> "none"]

NoReply == [user |-> 0, kind |-> "none", msg |-> "none"]

\* the text handlers that can be in flight at once, none of them started
Tasks == {1, 2}
NoTask == [pc |-> "none", user |-> 0, text |-> <<>>, channels |-> <<>>]
NoTasks == [t \in Tasks |-> NoTask]

Init ==
    /\ user_states = EmptyDict
    /\ user_contexts = EmptyDict
    /\ call = NoCall
    /\ users = EmptyDict
    /\ channels = <<>>
    /\ sessions = <<>>
    /\ frozen_cache = <<>>
    /\ last_cached = EmptyDict
    /\ temp_files = {}
    /\ now = 0
    /\ reply = NoReply
    /\ tasks = NoTasks

(***************************************************************************)
(* The StateManager driven directly through its public methods             *)
(***************************************************************************)

\* states, keys and values the direct calls are made with
SMStates == {IDLE, CHANNEL_SETUP}
SMKeys == {"", "check_type", "source_file"}
SMValues == {Str("single"), Str("bulk")}
SMDicts == UNION {[K -> SMValues] : K \in {{}, {""}, {"check_type"}, {"source_file"}}}
SMCtxArgs == {NoCtx} \cup {Ctx(d) : d \in SMDicts}

SetState(user_id, state, context) ==
    /\ user_states' = SetStateStates(user_states, user_id, state)
    /\ user_contexts' = SetStateContexts(user_contexts, user_id, context)
    /\ call' = [NoCall EXCEPT !.op = "set_state", !.user = user_id,
                              !.state = state, !.context = context]
    /\ UNCHANGED <<users, channels, sessions, temp_files, now, reply,
                 frozen_cache, last_cached, tasks>>

ClearState(user_id) ==
    /\ user_states' = ClearStateStates(user_states, user_id)
    /\ user_contexts' = ClearStateContexts(user_contexts, user_id)
    /\ call' = [NoCall EXCEPT !.op = "clear_state", !.user = user_id]
    /\ UNCHANGED <<users, channels, sessions, temp_files, now, reply,
                 frozen_cache, last_cached, tasks>>

SetContext(user_id, key, value) ==
    /\ user_contexts' = SetContextContexts(user_contexts, user_id, key, value)
    /\ call' = [NoCall EXCEPT !.op = "set_context", !.user = user_id,
                              !.key = key, !.value = value]
    /\ UNCHANGED <<user_states, users, channels, sessions, temp_files, now, reply,
                 frozen_cache, last_cached, tasks>>

ClearContext(user_id, key) ==
    /\ user_contexts' = ClearContextContexts(user_contexts, user_id, key)
    /\ call' = [NoCall EXCEPT !.op = "clear_context", !.user = user_id, !.key = key]
    /\ UNCHANGED <<user_states, users, channels, sessions, temp_files, now, reply,
                 frozen_cache, last_cached, tasks>>

SMNext ==
    \/ \E u \in Users, s \in SMStates, c \in SMCtxArgs : SetState(u, s, c)
    \/ \E u \in Users : ClearState(u)
    \/ \E u \in Users, k \in SMKeys, v \in SMValues : SetContext(u, k, v)
    \/ \E u \in Users, k \in SMKeys \cup {NoKey} : ClearContext(u, k)

SpecSM == Init /\ [][SMNext]_vars

(***************************************************************************)
(* The bot driven by inbound events, one handler at a time                 *)
(***************************************************************************)

\* the most rows the channels table holds in a run
MaxRows == 2

\* the state a handler leaves becomes the program state, while the channels
\* table holds at most `rows` rows
ApplyWithin(R, user_id, kind, rows) ==
    /\ Len(R.channels) <= rows
    /\ user_states' = R.us
    /\ user_contexts' = R.uc
    /\ users' = R.users
    /\ channels' = R.channels
    /\ sessions' = R.sessions
    /\ temp_files' = R.temp
    /\ reply' = [user |-> user_id, kind |-> kind, msg |-> R.msg]
    /\ UNCHANGED <<call, now, frozen_cache, last_cached, tasks>>

Apply(R, user_id, kind) == ApplyWithin(R, user_id, kind, MaxRows)

\* the outcomes of a handler's store write: it is attempted only when the step
\* before it (the activity update, the download) went through
WriteOutcomes(before_ok) == IF before_ok THEN BOOLEAN ELSE {TRUE}

\* /start
StartCommand(user_id) ==
    /\ user_id \in Users
    /\ \E act_ok \in BOOLEAN : \E db_ok \in WriteOutcomes(act_ok) :
          Apply(StartResult(Cur, user_id, now, act_ok, db_ok), user_id, "command")

\* /help, /status, /admin
Command(user_id, name) ==
    /\ user_id \in Users
    /\ Apply(CommandResult(Cur, user_id, name), user_id, "command")

\* a callback query
HandleCallback(user_id, cb) ==
    /\ user_id \in Users
    /\ \E act_ok \in BOOLEAN : \E db_ok \in WriteOutcomes(act_ok) :
          Apply(CallbackResult(Cur, user_id, cb, now, act_ok, db_ok), user_id, "callback")

\* a text message
HandleText(user_id, text) ==
    /\ user_id \in Users
    /\ \E db_ok \in BOOLEAN :
          Apply(TextResult(Cur, user_id, text, db_ok), user_id, "text")

\* a document upload
HandleDocument(user_id, doc) ==
    /\ user_id \in Users
    /\ \E dl_ok \in BOOLEAN : \E db_ok \in WriteOutcomes(dl_ok) :
          Apply(DocumentResult(Cur, user_id, doc, now, dl_ok, db_ok), user_id, "document")

\* one event from a user of US, with its payload drawn from CBS, TXS or DOCS
NextOver(US, CBS, TXS, DOCS) ==
    \/ \E u \in US : StartCommand(u)
    \/ \E u \in US, n \in {"help", "status", "admin"} : Command(u, n)
    \/ \E u \in US, cb \in CBS : HandleCallback(u, cb)
    \/ \E u \in US, t \in TXS : HandleText(u, t)
    \/ \E u \in US, d \in DOCS : HandleDocument(u, d)

\* texts
TxAb == <<"@", "a", "b", " ", "N">>
TxAB == <<" ", "@", "A", "B", " ", " ", "N", "\n">>
TxMaxName ==
    <<"-", "1", "0", "0", "1", "2", "3", "4", "5", "6", "7", "8", "9", "0", "\t">>
        \o Rep("n", MaxChannelNameLen)
TxLongName == <<"@", "c", "d", " ">> \o Rep("n", MaxChannelNameLen + 1)
TxNoPrefix == <<"a", "b", " ", "N">>
TxShortId == <<"-", "1", "0", "0", "1", "2", "3", "4", "5", "6", "7", "8", "9", " ", "N">>
TxTwoLines == <<"@", "c", "d", " ", "N", "\n", "M">>
TxNumber == <<"1", "2", "3", "4", "5", "6", "7", "8", "9", "0">>

\* documents
File(name, data) ==
    [file_name |-> name, has_name |-> TRUE, data |-> data, is_zip |-> FALSE, entries |-> <<>>]
Member(name, data) == [filename |-> name, data |-> data, is_dir |-> FALSE, readable |-> TRUE]
Archive(name, entries) ==
    [file_name |-> name, has_name |-> TRUE, data |-> <<"P", "K">>, is_zip |-> TRUE,
     entries |-> entries]

DocSession == File(<<"A">> \o Ext(<<"s", "e", "s", "s", "i", "o", "n">>), <<"S">>)
DocPdf == File(<<"x">> \o Ext(<<"p", "d", "f">>), <<"%">>)
DocTxt == File(<<"a">> \o TxtExt, TxNumber \o <<"\n">>)
DocZip == Archive(<<"b">> \o ZipExt,
                  <<Member(<<"n">> \o CsvExt, <<"1", "-", "2", "3", "4", " ", "5", "6", "7", "-", "8", "9", "0">>),
                    Member(<<"k">> \o Ext(<<"j", "s", "o", "n">>), <<"J">>)>>)

\* the events of the channel management flow, for both users
ChannelCallbacks ==
    {Cb("main_menu"), Cb("manage_channels"), Cb("add_channel"), Cb("view_status")}
    \cup {RemoveCb(i) : i \in 1..MaxRows}
ChannelTexts == {TxAb, TxAB, TxNoPrefix, TxShortId, TxTwoLines}
ChannelDocs == {DocSession, DocPdf}

Next == NextOver(Users, ChannelCallbacks, ChannelTexts, ChannelDocs)

Spec == Init /\ [][Next]_vars

\* the events of the channel flow with names at the length limit, for one user
NameUsers == {2}
NameCallbacks == {Cb("main_menu"), Cb("add_channel"), RemoveCb(1)}
NameTexts == {TxAb, TxMaxName, TxLongName, TxNoPrefix, TxShortId, TxTwoLines}
NameDocs == {DocPdf}

NextNames == NextOver(NameUsers, NameCallbacks, NameTexts, NameDocs)

SpecNames == Init /\ [][NextNames]_vars

\* the events of the session, frozen check and withdraw flows, for one user
FlowUsers == {2}
FlowCallbacks ==
    {Cb(n) : n \in {"main_menu", "session_menu", "upload_session", "remove_session",
                    "confirm_remove_session", "manage_channels", "add_channel",
                    "check_frozen", "frozen_single", "frozen_bulk", "check_bulk_frozen",
                    "process_withdraw", "process_bulk_withdraw", "start_withdraw",
                    "confirm_withdraw"}}
FlowTexts == {TxAb, TxNumber}
FlowDocs == {DocSession, DocTxt, DocZip, DocPdf}

NextFlows == NextOver(FlowUsers, FlowCallbacks, FlowTexts, FlowDocs)

SpecFlows == Init /\ [][NextFlows]_vars

\* the events of the session upload, for one user
DocUpper == File(<<"B">> \o Ext(<<"S", "E", "S", "S", "I", "O", "N">>), <<"U">>)
DocEmpty == File(<<"e">> \o Ext(<<"t", "d", "a", "t", "a">>), <<>>)
DocZipNoSession == Archive(<<"c">> \o ZipExt, <<Member(<<"n">> \o CsvExt, <<"1">>)>>)
DocZipEmptyFirst ==
    Archive(<<"d">> \o ZipExt,
            <<Member(<<"k">> \o Ext(<<"j", "s", "o", "n">>), <<>>),
              Member(<<"s">> \o Ext(<<"s", "e", "s", "s", "i", "o", "n">>), <<"S">>)>>)
DocBadZip == File(<<"f">> \o ZipExt, <<"%">>)
DocNoName == [File(<<>>, <<"S">>) EXCEPT !.has_name = FALSE]

UploadUsers == {2}
UploadCallbacks ==
    {Cb(n) : n \in {"main_menu", "upload_session", "confirm_remove_session"}}
UploadTexts == {TxNumber}
UploadDocs == {DocSession, DocUpper, DocZip, DocPdf, DocEmpty, DocZipNoSession,
               DocZipEmptyFirst, DocBadZip, DocNoName}

NextUpload == NextOver(UploadUsers, UploadCallbacks, UploadTexts, UploadDocs)

SpecUpload == Init /\ [][NextUpload]_vars

(***************************************************************************)
(* The Database driven directly through its public methods                 *)
(***************************************************************************)

\* the blobs and the phone number store_session is called with
SessionBlobs == {<<>>, <<"S">>, <<"T">>}
SessionPhones == {<<"7">>}

\* the channel add_channel is called with
StoreChannelIds == {<<"@", "a", "b">>}
StoreChannelNames == {<<"N">>}

\* what a method that returns bool returned
Returned(ok) == IF ok THEN "True" ELSE "False"

\* register_user; db_ok: the write goes through, else the method returns False
CallRegisterUser(user_id) ==
    /\ user_id \in Users
    /\ \E db_ok \in BOOLEAN :
          /\ users' = IF db_ok THEN RegisterUser(users, user_id, now) ELSE users
          /\ call' = [NoCall EXCEPT !.op = "register_user", !.user = user_id,
                                    !.result = Returned(db_ok)]
    /\ UNCHANGED <<user_states, user_contexts, channels, sessions, temp_files, now, reply,
                 frozen_cache, last_cached, tasks>>

\* update_user_activity; the method returns nothing
CallUpdateUserActivity(user_id) ==
    /\ user_id \in Users
    /\ \E db_ok \in BOOLEAN :
          /\ users' = IF db_ok THEN UpdateUserActivity(users, user_id, now) ELSE users
          /\ call' = [NoCall EXCEPT !.op = "update_user_activity", !.user = user_id,
                                    !.result = IF db_ok THEN "None" ELSE "raised"]
    /\ UNCHANGED <<user_states, user_contexts, channels, sessions, temp_files, now, reply,
                 frozen_cache, last_cached, tasks>>

\* set_premium_status
CallSetPremiumStatus(user_id, is_premium) ==
    /\ user_id \in Users
    /\ \E db_ok \in BOOLEAN :
          /\ users' = IF db_ok THEN SetPremiumStatus(users, user_id, is_premium) ELSE users
          /\ call' = [NoCall EXCEPT !.op = "set_premium_status", !.user = user_id,
                                    !.value = [t |-> "bool", v |-> <<is_premium>>],
                                    !.result = Returned(db_ok)]
    /\ UNCHANGED <<user_states, user_contexts, channels, sessions, temp_files, now, reply,
                 frozen_cache, last_cached, tasks>>

\* is_premium_user; read_ok: the read goes through, else the method raises
CallIsPremiumUser(user_id) ==
    /\ user_id \in Users
    /\ \E read_ok \in BOOLEAN :
          call' = [NoCall EXCEPT !.op = "is_premium_user", !.user = user_id,
                                 !.result = IsPremiumUserResult(users, user_id, read_ok)]
    /\ UNCHANGED <<user_states, user_contexts, users, channels, sessions, temp_files, now,
                   reply, frozen_cache, last_cached, tasks>>

\* add_channel
CallAddChannel(user_id, channel_id, channel_name) ==
    /\ user_id \in Users
    /\ Len(channels) < MaxRows
    /\ \E db_ok \in BOOLEAN :
          /\ channels' = IF db_ok THEN AddChannel(channels, user_id, channel_id, channel_name)
                         ELSE channels
          /\ call' = [NoCall EXCEPT !.op = "add_channel", !.user = user_id,
                                    !.result = Returned(db_ok)]
    /\ UNCHANGED <<user_states, user_contexts, users, sessions, temp_files, now, reply,
                 frozen_cache, last_cached, tasks>>

\* remove_channel
CallRemoveChannel(user_id, channel_db_id) ==
    /\ user_id \in Users
    /\ \E db_ok \in BOOLEAN :
          /\ channels' = IF db_ok THEN RemoveChannel(channels, user_id, channel_db_id)
                         ELSE channels
          /\ call' = [NoCall EXCEPT !.op = "remove_channel", !.user = user_id,
                                    !.result = Returned(db_ok)]
    /\ UNCHANGED <<user_states, user_contexts, users, sessions, temp_files, now, reply,
                 frozen_cache, last_cached, tasks>>

\* store_session
CallStoreSession(user_id, session_data, phone_number) ==
    /\ user_id \in Users
    /\ \E db_ok \in BOOLEAN :
          /\ sessions' = IF db_ok
                         THEN StoreSession(sessions, user_id, session_data, phone_number, now)
                         ELSE sessions
          /\ call' = [NoCall EXCEPT !.op = "store_session", !.user = user_id,
                                    !.value = [t |-> "bytes", v |-> session_data],
                                    !.result = Returned(db_ok)]
    /\ UNCHANGED <<user_states, user_contexts, users, channels, temp_files, now, reply,
                 frozen_cache, last_cached, tasks>>

\* remove_user_session
CallRemoveUserSession(user_id) ==
    /\ user_id \in Users
    /\ \E db_ok \in BOOLEAN :
          /\ sessions' = IF db_ok THEN RemoveUserSession(sessions, user_id) ELSE sessions
          /\ call' = [NoCall EXCEPT !.op = "remove_user_session", !.user = user_id,
                                    !.result = Returned(db_ok)]
    /\ UNCHANGED <<user_states, user_contexts, users, channels, temp_files, now, reply,
                 frozen_cache, last_cached, tasks>>

NextStore ==
    \/ \E u \in Users : CallRegisterUser(u)
    \/ \E u \in Users : CallUpdateUserActivity(u)
    \/ \E u \in Users, v \in BOOLEAN : CallSetPremiumStatus(u, v)
    \/ \E u \in Users : CallIsPremiumUser(u)
    \/ \E u \in Users, c \in StoreChannelIds, n \in StoreChannelNames : CallAddChannel(u, c, n)
    \/ \E u \in Users, i \in 1..MaxRows : CallRemoveChannel(u, i)
    \/ \E u \in Users, p \in SessionPhones : CallStoreSession(u, <<"S">>, p)
    \/ \E u \in Users : CallRemoveUserSession(u)

SpecStore == Init /\ [][NextStore]_vars

\* the session methods alone, with every blob
NextSessionStore ==
    \/ \E u \in Users, b \in SessionBlobs, p \in SessionPhones : CallStoreSession(u, b, p)
    \/ \E u \in Users : CallRemoveUserSession(u)

SpecSessionStore == Init /\ [][NextSessionStore]_vars

\* the keys the cache methods are called with
CacheChannels == {<<"@", "a", "b">>}
CachePhones == {<<"1">>, <<"2">>}

\* the clock runs for MaxHalfHours half hours, in steps of about half an hour
MaxHalfHours == 3
HalfHour == OneHour \div 2
MaxTime == MaxHalfHours * HalfHour + 1
TickSteps == {HalfHour - 1, HalfHour, HalfHour + 1}

\* cache_frozen_result; db_ok: the write goes through, else the method raises
CallCacheFrozenResult(channel_id, phone_number, is_frozen) ==
    /\ channel_id \in CacheChannels
    /\ \E db_ok \in BOOLEAN :
          /\ frozen_cache' = IF db_ok
                             THEN CacheFrozenResult(frozen_cache, channel_id, phone_number,
                                                    is_frozen, now)
                             ELSE frozen_cache
          /\ last_cached' = IF db_ok
                            THEN DictSet(last_cached, <<channel_id, phone_number>>,
                                         [v |-> is_frozen, at |-> now])
                            ELSE last_cached
          /\ call' = [NoCall EXCEPT !.op = "cache_frozen_result",
                                    !.value = [t |-> "bool", v |-> <<is_frozen>>],
                                    !.result = IF db_ok THEN "None" ELSE "raised"]
    /\ UNCHANGED <<user_states, user_contexts, users, channels, sessions, temp_files, now,
                   reply, tasks>>

\* get_cached_result
CallGetCachedResult(channel_id, phone_number) ==
    /\ channel_id \in CacheChannels
    /\ call' = [NoCall EXCEPT !.op = "get_cached_result",
                              !.value = GetCachedResult(frozen_cache, channel_id,
                                                        phone_number, now),
                              !.result = "returned"]
    /\ UNCHANGED <<user_states, user_contexts, users, channels, sessions, temp_files, now,
                   reply, frozen_cache, last_cached, tasks>>

\* time passes
Tick(d) ==
    /\ now + d <= MaxTime
    /\ now' = now + d
    /\ UNCHANGED <<user_states, user_contexts, call, users, channels, sessions, temp_files,
                   reply, frozen_cache, last_cached, tasks>>

NextCache ==
    \/ \E c \in CacheChannels, p \in CachePhones, v \in BOOLEAN : CallCacheFrozenResult(c, p, v)
    \/ \E c \in CacheChannels, p \in CachePhones : CallGetCachedResult(c, p)
    \/ \E d \in TickSteps : Tick(d)

SpecCache == Init /\ [][NextCache]_vars

\* the events of the withdraw flow, for one user
TxOther == <<"0", "9", "8", "7", "6", "5", "4", "3", "2", "1">>
DocTwo == File(<<"t">> \o TxtExt, TxOther \o <<"\n">> \o TxNumber \o <<"\n">>)
DocNoNumbers == File(<<"e">> \o TxtExt, <<"h", "i">>)

WithdrawUsers == {2}
WithdrawCallbacks == {Cb(n) : n \in {"main_menu", "start_withdraw", "confirm_withdraw"}}
WithdrawTexts == {TxNumber, TxOther, TxAb}
WithdrawDocs == {DocTxt, DocTwo, DocZip, DocNoNumbers, DocPdf}

NextWithdraw == NextOver(WithdrawUsers, WithdrawCallbacks, WithdrawTexts, WithdrawDocs)

SpecWithdraw == Init /\ [][NextWithdraw]_vars

\* texts sent in ADMIN_COMMAND, and the contexts the state is entered with
TxTwo == <<"2">>
TxTwoPadded == <<" ", "+", "0", "_", "2", "\n">>
TxSeven == <<"7">>
TxNotId == <<"2", "x">>
TxBadUnderscore == <<"2", "_">>
AdminTexts == {TxTwo, TxTwoPadded, TxSeven, TxNotId, TxBadUnderscore}
AdminCtxArgs == {NoCtx, Ctx([admin_action |-> Str("add_premium")]),
                 Ctx([admin_action |-> Str("remove_premium")])}

\* set_state(user_id, ADMIN_COMMAND, context) called on the StateManager: no
\* handler makes this call
EnterAdminCommand(user_id, context) ==
    /\ context \in AdminCtxArgs
    /\ SetState(user_id, ADMIN_COMMAND, context)

NextAdmin ==
    \/ \E u \in Users : StartCommand(u)
    \/ \E u \in Users, c \in AdminCtxArgs : EnterAdminCommand(u, c)
    \/ \E u \in Users, t \in AdminTexts : HandleText(u, t)

SpecAdmin == Init /\ [][NextAdmin]_vars

\* the events of the file checks, for one user
DocCsv == File(<<"N">> \o CsvExt, TxNumber)

FileUsers == {2}
FileCallbacks ==
    {Cb(n) : n \in {"main_menu", "frozen_single", "frozen_bulk", "upload_session"}}
FileTexts == {TxNumber, TxNoPrefix}
FileDocs == {DocTwo, DocZip, DocCsv, DocNoNumbers, DocPdf, DocSession}

\* set_state(user_id, CHANNEL_EDIT) called on the StateManager: the state is
\* reserved, no handler makes this call
EnterChannelEdit(user_id) ==
    /\ user_id \in FileUsers
    /\ SetState(user_id, CHANNEL_EDIT, NoCtx)

NextFiles ==
    \/ NextOver(FileUsers, FileCallbacks, FileTexts, FileDocs)
    \/ \E u \in FileUsers : EnterChannelEdit(u)

SpecFiles == Init /\ [][NextFiles]_vars

\* the texts given to _extract_phone_numbers: up to MaxPieces pieces in a row
MaxPieces == 2
TxPlusOther == <<"+">> \o TxOther
TxGrouped == <<"1", "-", "2", "3", "4", " ", "5", "6", "7", "-", "8", "9", "0", "0">>
TxSixteen == Rep("5", 16)
ExtractPieces == {TxNumber, TxOther, TxPlusOther, TxGrouped, TxSixteen, <<" ">>, <<"x">>}

RECURSIVE Joined(_)
Joined(n) ==
    IF n = 0 THEN {<<>>}
    ELSE Joined(n - 1) \cup {t \o p : t \in Joined(n - 1), p \in ExtractPieces}

ExtractTexts == Joined(MaxPieces)

\* a text is about to be given to _extract_phone_numbers
InitExtract ==
    /\ \E text \in ExtractTexts :
          call = [NoCall EXCEPT !.op = "text", !.value = text]
    /\ user_states = EmptyDict /\ user_contexts = EmptyDict
    /\ users = EmptyDict /\ channels = <<>> /\ sessions = <<>>
    /\ frozen_cache = <<>> /\ last_cached = EmptyDict
    /\ temp_files = {} /\ now = 0 /\ reply = NoReply /\ tasks = NoTasks

\* _extract_phone_numbers(text) returns
CallExtractPhoneNumbers ==
    /\ call.op = "text"
    /\ call' = [call EXCEPT !.op = "_extract_phone_numbers",
                            !.result = ExtractPhoneNumbers(call.value)]
    /\ UNCHANGED <<user_states, user_contexts, users, channels, sessions,
                   frozen_cache, last_cached, temp_files, now, reply, tasks>>

\* ','.join(numbers)
RECURSIVE CommaJoin(_)
CommaJoin(numbers) ==
    IF numbers = <<>> THEN <<>>
    ELSE IF Len(numbers) = 1 THEN numbers[1]
    ELSE numbers[1] \o <<",">> \o CommaJoin(Tail(numbers))

\* _extract_phone_numbers applied to the comma-joined list it returned: the
\* call keeps the first list under `context` and the joined text under `key`
CallExtractOnOutput ==
    /\ call.op = "_extract_phone_numbers"
    /\ call' = [call EXCEPT !.op = "_extract_phone_numbers(output)",
                            !.context = call.result,
                            !.key = CommaJoin(call.result),
                            !.result = ExtractPhoneNumbers(CommaJoin(call.result))]
    /\ UNCHANGED <<user_states, user_contexts, users, channels, sessions,
                   frozen_cache, last_cached, temp_files, now, reply, tasks>>

NextExtract == CallExtractPhoneNumbers \/ CallExtractOnOutput

SpecExtract == InitExtract /\ [][NextExtract]_vars

\* archives of number files, sent by one user outside and inside the withdraw flow
Unreadable(name, data) == [Member(name, data) EXCEPT !.readable = FALSE]
Directory(name) == [Member(name, <<>>) EXCEPT !.is_dir = TRUE]

ArcMixed ==
    Archive(<<"m">> \o ZipExt,
            <<Directory(<<"d", "/">>),
              Member(<<"a">> \o TxtExt, TxOther \o <<"\n">>),
              Member(<<"b">> \o Ext(<<"s", "e", "s", "s", "i", "o", "n">>), TxSixteen),
              Member(<<"C">> \o Ext(<<"C", "S", "V">>), TxNumber \o <<",">> \o TxOther)>>)
ArcUnreadable ==
    Archive(<<"u">> \o ZipExt,
            <<Unreadable(<<"a">> \o TxtExt, TxNumber), Member(<<"b">> \o TxtExt, TxOther)>>)
ArcOrder ==
    Archive(<<"o">> \o ZipExt,
            <<Member(<<"x">> \o TxtExt, TxNumber), Member(<<"y">> \o CsvExt, TxOther)>>)
ArcNoText ==
    Archive(<<"n">> \o ZipExt, <<Member(<<"k">> \o Ext(<<"j", "s", "o", "n">>), TxNumber)>>)
ArcAllUnreadable ==
    Archive(<<"r">> \o ZipExt, <<Unreadable(<<"a">> \o TxtExt, TxNumber)>>)

ArchiveUsers == {2}
ArchiveCallbacks == {Cb(n) : n \in {"main_menu", "start_withdraw"}}
ArchiveTexts == {TxNumber}
ArchiveDocs == {DocZip, ArcMixed, ArcUnreadable, ArcOrder, ArcNoText, ArcAllUnreadable,
                DocBadZip}

NextArchive == NextOver(ArchiveUsers, ArchiveCallbacks, ArchiveTexts, ArchiveDocs)

SpecArchive == Init /\ [][NextArchive]_vars

\* the events of the session removal, for one user
RemoveUsers == {2}
RemoveCallbacks ==
    {Cb(n) : n \in {"main_menu", "session_menu", "upload_session", "remove_session",
                    "confirm_remove_session"}}
RemoveTexts == {TxNumber}
RemoveDocs == {DocSession, DocUpper, DocZipEmptyFirst, DocPdf}

NextRemove == NextOver(RemoveUsers, RemoveCallbacks, RemoveTexts, RemoveDocs)

SpecRemove == Init /\ [][NextRemove]_vars

\* every kind of event, sent by the administrator: each callback the router
\* names, the admin callbacks, the commands, texts and documents
AdminEventUsers == AdminIds
AdminEventCallbacks ==
    {Cb(n) : n \in {"main_menu", "session_menu", "upload_session", "remove_session",
                    "confirm_remove_session", "manage_channels", "add_channel",
                    "check_frozen", "frozen_single", "frozen_bulk", "check_bulk_frozen",
                    "process_withdraw", "process_bulk_withdraw", "start_withdraw",
                    "confirm_withdraw", "unknown"} \cup AdminData}
    \cup {RemoveCb(1)}
AdminEventTexts == {TxTwo, TxNumber}
AdminEventDocs == {DocTxt, DocSession}

NextAdminEvents ==
    NextOver(AdminEventUsers, AdminEventCallbacks, AdminEventTexts, AdminEventDocs)

\* the dispatcher handles every update it is sent, and updates keep coming
SpecAdminEvents == Init /\ [][NextAdminEvents]_vars /\ WF_vars(NextAdminEvents)

\* a user adding channels up to the limits while the administrator grants and
\* revokes the user's premium status; the channels table holds up to
\* MaxLimitRows rows
MaxLimitRows == 6
\* the text naming the k-th channel: the user names a new channel each time
ChannelDigits == <<"1", "2", "3", "4", "5", "6", "7", "8", "9">>
ChannelTextOf(k) == <<"@", "c", ChannelDigits[k], " ", "N">>
LimitChannelTexts ==
    {ChannelTextOf(k) : k \in {Len(channels), Len(channels) + 1} \cap DOMAIN ChannelDigits}
LimitUser == CHOOSE u \in Users : u \notin AdminIds

\* /start with the larger table
LimitStart(user_id) ==
    /\ user_id \in Users
    /\ \E act_ok \in BOOLEAN : \E db_ok \in WriteOutcomes(act_ok) :
          ApplyWithin(StartResult(Cur, user_id, now, act_ok, db_ok), user_id, "command",
                      MaxLimitRows)

\* a callback query with the larger table
LimitCallback(user_id, cb) ==
    /\ user_id \in Users
    /\ \E act_ok \in BOOLEAN : \E db_ok \in WriteOutcomes(act_ok) :
          ApplyWithin(CallbackResult(Cur, user_id, cb, now, act_ok, db_ok), user_id,
                      "callback", MaxLimitRows)

\* a text message with the larger table
LimitText(user_id, text) ==
    /\ user_id \in Users
    /\ \E db_ok \in BOOLEAN :
          ApplyWithin(TextResult(Cur, user_id, text, db_ok), user_id, "text", MaxLimitRows)

\* the events of the handlers alone
NextLimitEvents ==
    \/ \E u \in Users : LimitStart(u)
    \/ LimitCallback(LimitUser, Cb("add_channel"))
    \/ \E t \in LimitChannelTexts : LimitText(LimitUser, t)
    \/ \E u \in AdminIds : LimitText(u, TxTwo)

SpecLimitEvents == Init /\ [][NextLimitEvents]_vars

NextLimit ==
    \/ NextLimitEvents
    \/ \E u \in AdminIds, c \in AdminCtxArgs \ {NoCtx} : EnterAdminCommand(u, c)

SpecLimit == Init /\ [][NextLimit]_vars

\* a user in the flows, the administrator changing the user's premium status,
\* and both returning to the menu
ResetUser == CHOOSE u \in Users : u \notin AdminIds
ResetCallbacks ==
    {Cb(n) : n \in {"start_withdraw", "frozen_bulk", "upload_session", "add_channel"}}
ResetTexts == {TxNumber, TxAb}
ResetDocs == {DocTxt, DocSession}

NextReset ==
    \/ \E u \in Users : StartCommand(u)
    \/ \E u \in Users : HandleCallback(u, Cb("main_menu"))
    \/ \E cb \in ResetCallbacks : HandleCallback(ResetUser, cb)
    \/ \E t \in ResetTexts : HandleText(ResetUser, t)
    \/ \E d \in ResetDocs : HandleDocument(ResetUser, d)
    \/ \E u \in AdminIds, c \in AdminCtxArgs \ {NoCtx} : EnterAdminCommand(u, c)
    \/ \E u \in AdminIds : HandleText(u, TxTwo)

SpecReset == Init /\ [][NextReset]_vars

\* two texts of one user in CHANNEL_SETUP handled at once: a handler runs up to
\* the answer of get_user_channels, is suspended, and resumes with the
\* duplicate check on the list it was given
RaceUser == CHOOSE u \in Users : u \notin AdminIds
RaceTexts == {TxAb, TxAB}

\* handle_text up to the answer of get_user_channels in _handle_channel_setup
ReceiveChannelText(t, user_id, text) ==
    /\ tasks[t].pc = "none"
    /\ IsUserRegistered(users, user_id)
    /\ GetState(user_id) = CHANNEL_SETUP
    /\ ParseChannel(text).kind = "ok"
    /\ tasks' = [tasks EXCEPT ![t] = [pc |-> "checking", user |-> user_id, text |-> text,
                                      channels |-> GetUserChannels(channels, user_id)]]
    /\ UNCHANGED <<user_states, user_contexts, call, users, channels, sessions, frozen_cache,
                   last_cached, temp_files, now, reply>>

\* _handle_channel_setup from the duplicate check to its reply
ResumeChannelText(t) ==
    /\ tasks[t].pc = "checking"
    /\ LET user_id == tasks[t].user
           p == ParseChannel(tasks[t].text)
           chans == tasks[t].channels
       IN  IF \E i \in DOMAIN chans : Lower(chans[i].channel_id) = Lower(p.channel_id)
           THEN /\ reply' = [user |-> user_id, kind |-> "text",
                             msg |-> "channel_already_added"]
                /\ UNCHANGED <<user_states, user_contexts, channels>>
           ELSE \E db_ok \in BOOLEAN :
                   IF db_ok
                   THEN /\ Len(channels) < MaxRows
                        /\ channels' = AddChannel(channels, user_id, p.channel_id,
                                                  p.channel_name)
                        /\ user_states' = ClearStateStates(user_states, user_id)
                        /\ user_contexts' = ClearStateContexts(user_contexts, user_id)
                        /\ reply' = [user |-> user_id, kind |-> "text",
                                     msg |-> "channel_added"]
                   ELSE /\ reply' = [user |-> user_id, kind |-> "text",
                                     msg |-> "channel_add_failed"]
                        /\ UNCHANGED <<user_states, user_contexts, channels>>
    /\ tasks' = [tasks EXCEPT ![t] = NoTask]
    /\ UNCHANGED <<call, users, sessions, frozen_cache, last_cached, temp_files, now>>

NextRace ==
    \/ StartCommand(RaceUser)
    \/ \E cb \in {Cb("add_channel"), Cb("main_menu"), RemoveCb(1)} :
          HandleCallback(RaceUser, cb)
    \/ \E t \in Tasks, text \in RaceTexts : ReceiveChannelText(t, RaceUser, text)
    \/ \E t \in Tasks : ResumeChannelText(t)

SpecRace == Init /\ [][NextRace]_vars

\* the bulk check and the withdraw confirmation on lists of one to four numbers
TxThird == Rep("1", 10)
TxFourth == Rep("2", 11)
DocFour ==
    File(<<"f">> \o TxtExt,
         TxNumber \o <<"\n">> \o TxOther \o <<"\n">> \o TxThird \o <<"\n">> \o TxFourth)
CountUsers == {2}
CountCallbacks ==
    {Cb(n) : n \in {"main_menu", "add_channel", "frozen_bulk", "check_bulk_frozen",
                    "process_bulk_withdraw", "start_withdraw", "confirm_withdraw"}}
CountTexts == {TxAb, TxNumber}
CountDocs == {DocTxt, DocTwo, DocFour}

NextCounts == NextOver(CountUsers, CountCallbacks, CountTexts, CountDocs)

SpecCounts == Init /\ [][NextCounts]_vars

\* two users adding channels, each asking to remove the channel with id 1
OwnerCallbacks == {Cb("add_channel"), Cb("manage_channels"), RemoveCb(1)}
OwnerTexts == {TxAb}
OwnerDocs == {DocPdf}

NextOwners == NextOver(Users, OwnerCallbacks, OwnerTexts, OwnerDocs)

SpecOwners == Init /\ [][NextOwners]_vars

\* the events of one user while the clock runs
ActivityUsers == {2}
ActivityCallbacks == {Cb("main_menu")}
ActivityTexts == {TxNumber}
ActivityDocs == {DocPdf}

NextActivity ==
    \/ NextOver(ActivityUsers, ActivityCallbacks, ActivityTexts, ActivityDocs)
    \/ \E d \in TickSteps : Tick(d)

SpecActivity == Init /\ [][NextActivity]_vars

(***************************************************************************)
(* Properties of the StateManager                                          *)
(***************************************************************************)

\* the context bag of a user, empty when the user has none
BagIn(uc, user_id) == DictGet(uc, user_id, EmptyDict)

Bag(user_id) == BagIn(user_contexts, user_id)

\* every key argument get_context can be called with
SMKeyArgs == SMKeys \cup {NoKey}

\* C4: a StateManager call made for user A leaves get_state(B) and
\* get_context(B, key) as they were, for every other user B and every key.
C4_StateIsolation ==
    [][\A b \in Users :
          (call'.user # b) =>
              /\ GetStateIn(user_states', b) = GetStateIn(user_states, b)
              /\ \A k \in SMKeyArgs :
                    GetContextIn(user_contexts', b, k) = GetContextIn(user_contexts, b, k)]_vars

\* C4 witness: a call for user 1 was made while user 2 holds a state and a context.
C4_Witness ==
    /\ call.user = 1
    /\ call.op \in {"set_state", "clear_state", "set_context", "clear_context"}
    /\ GetState(2) # IDLE
    /\ Bag(2) # EmptyDict

\* C8: set_state(u, s, ctx) makes get_state(u) return s; a given ctx is merged
\* into u's bag (its keys take the new values, the other keys keep theirs) and
\* an omitted ctx leaves every bag unchanged.
C8_SetStateMerges ==
    [][\A u \in Users :
          (call'.op = "set_state" /\ call'.user = u) =>
              LET c == call'.context
              IN
              /\ GetStateIn(user_states', u) = call'.state
              /\ IF c.given
                 THEN /\ DOMAIN BagIn(user_contexts', u) = (DOMAIN Bag(u)) \cup (DOMAIN c.d)
                      /\ \A k \in DOMAIN c.d : BagIn(user_contexts', u)[k] = c.d[k]
                      /\ \A k \in (DOMAIN Bag(u)) \ (DOMAIN c.d) :
                            BagIn(user_contexts', u)[k] = Bag(u)[k]
                 ELSE user_contexts' = user_contexts]_vars

\* C8 witness: set_state was called with a context and the bag still holds a
\* key that the given context does not have.
C8_Witness ==
    /\ call.op = "set_state"
    /\ call.context.given
    /\ DOMAIN call.context.d # {}
    /\ (DOMAIN Bag(call.user)) \ (DOMAIN call.context.d) # {}

\* C9: a user with no entry in user_states (never set, or cleared) reads as
\* Idle, and right after clear_state(u) get_state(u) is Idle and
\* get_context(u, key) is absent for every key.
C9_ClearStateResets ==
    /\ \A u \in Users : u \notin DOMAIN user_states => GetState(u) = IDLE
    /\ (call.op = "clear_state") =>
          /\ GetState(call.user) = IDLE
          /\ \A k \in SMKeyArgs : GetContext(call.user, k) = None

\* C9 witness: clear_state ran for user 1 while user 2 still holds a state and a bag.
C9_Witness ==
    /\ call.op = "clear_state"
    /\ call.user = 1
    /\ GetState(2) = CHANNEL_SETUP
    /\ Bag(2) # EmptyDict

\* C10: clear_context(u, key) removes only that key, clear_context(u) empties
\* the bag, and get_state(u) is unchanged in both cases.
C10_ClearContextOneKey ==
    [][\A u \in Users :
          (call'.op = "clear_context" /\ call'.user = u) =>
              LET k == call'.key
              IN
              /\ GetStateIn(user_states', u) = GetState(u)
              /\ IF k = NoKey
                 THEN BagIn(user_contexts', u) = EmptyDict
                 ELSE BagIn(user_contexts', u) = DictPop(Bag(u), k)]_vars

(***************************************************************************)
(* Properties of the channel flow                                          *)
(***************************************************************************)

\* the reference and the name that the well-formed texts carry
WellFormedTexts == {TxAb, TxAB, TxMaxName}
RefOf(text) ==
    CASE text = TxAb -> <<"@", "a", "b">>
      [] text = TxAB -> <<"@", "A", "B">>
      [] text = TxMaxName -> <<"-", "1", "0", "0", "1", "2", "3", "4", "5", "6", "7", "8", "9", "0">>
NameOf(text) ==
    CASE text = TxAb -> <<"N">>
      [] text = TxAB -> <<"N">>
      [] text = TxMaxName -> Rep("n", MaxChannelNameLen)

\* the texts that match neither pattern, or carry a name over the limit
MalformedTexts == {TxLongName, TxNoPrefix, TxShortId, TxTwoLines}

\* the user has an active channel with this reference, ignoring case
HasActiveRef(ch, user_id, ref) ==
    \E i \in DOMAIN ch :
        /\ ch[i].user_id = user_id
        /\ ch[i].is_active
        /\ Lower(ch[i].channel_id) = Lower(ref)

\* the number of active channels of the user
ActiveCount(ch, user_id) ==
    Cardinality({i \in DOMAIN ch : ch[i].user_id = user_id /\ ch[i].is_active})

\* no user has two active channels with the same reference, ignoring case
NoDuplicateChannels ==
    \A i, j \in DOMAIN channels :
        (/\ i # j
         /\ channels[i].user_id = channels[j].user_id
         /\ channels[i].is_active
         /\ channels[j].is_active)
            => Lower(channels[i].channel_id) # Lower(channels[j].channel_id)

\* A step is the event HandleText(u, text) exactly when the action formula
\* HandleText(u, text) holds of it; such a step always leaves a reply of kind
\* text addressed to u, which the formulas below test first.

\* C1: after every handler event no user has two active channels whose
\* references are equal ignoring case; a ChannelSetup text whose reference
\* matches an active channel of the sender is answered as a duplicate, the
\* channels table is left as it was, and so is the sender's active count.
C1_NoDuplicateChannels ==
    [][/\ NoDuplicateChannels'
       /\ \A u \in Users, text \in WellFormedTexts :
             (/\ reply'.user = u
              /\ reply'.kind = "text"
              /\ IsUserRegistered(users, u)
              /\ GetState(u) = CHANNEL_SETUP
              /\ HasActiveRef(channels, u, RefOf(text))
              /\ HandleText(u, text))
                => /\ reply'.msg = "channel_already_added"
                   /\ channels' = channels
                   /\ ActiveCount(channels', u) = ActiveCount(channels, u)]_vars

\* C1 witness: a duplicate was rejected for a user who holds an active channel,
\* while the other user holds an active channel with the same reference.
C1_Witness ==
    /\ reply.msg = "channel_already_added"
    /\ \E i, j \in DOMAIN channels :
          /\ channels[i].user_id = reply.user /\ channels[i].is_active
          /\ channels[j].user_id # reply.user /\ channels[j].is_active
          /\ Lower(channels[i].channel_id) = Lower(channels[j].channel_id)

\* C5: a text or document event from a user who is not registered leaves that
\* user's state and context bag and every store record as they were, in
\* whatever state the user is.
C5_UnregisteredNoChange ==
    [][\A u \in Users :
          (/\ reply'.user = u
           /\ reply'.kind \in {"text", "document"}
           /\ ~IsUserRegistered(users, u)
           /\ \/ \E text \in ChannelTexts : HandleText(u, text)
              \/ \E doc \in ChannelDocs : HandleDocument(u, doc))
             => /\ GetStateIn(user_states', u) = GetState(u)
                /\ BagIn(user_contexts', u) = Bag(u)
                /\ users' = users
                /\ channels' = channels
                /\ sessions' = sessions]_vars

\* C5 witness: an unregistered user in ChannelSetup sent a text or a document
\* and was told to register.
C5_Witness ==
    /\ reply.msg = "please_start"
    /\ ~IsUserRegistered(users, reply.user)
    /\ GetState(reply.user) = CHANNEL_SETUP

\* C6: in ChannelSetup a text that matches neither pattern, or whose name is
\* longer than 100 characters, leaves the state ChannelSetup, the context
\* unchanged and the channels table as it was.
C6_MalformedRejected ==
    [][\A u \in NameUsers, text \in MalformedTexts :
          (/\ reply'.user = u
           /\ reply'.kind = "text"
           /\ IsUserRegistered(users, u)
           /\ GetState(u) = CHANNEL_SETUP
           /\ HandleText(u, text))
             => /\ GetStateIn(user_states', u) = CHANNEL_SETUP
                /\ user_contexts' = user_contexts
                /\ channels' = channels]_vars

\* C6 witness: a name over the limit was refused and the user is still in
\* ChannelSetup.
C6_Witness ==
    /\ reply.msg = "name_too_long"
    /\ GetState(reply.user) = CHANNEL_SETUP

\* C7: in ChannelSetup a well-formed text whose reference the user does not
\* hold either appends exactly one active row for the user with the parsed
\* reference and name and leaves the user Idle, or (the store write failed)
\* leaves the channels table as it was and the user in ChannelSetup.
C7_WellFormedAdds ==
    [][\A u \in NameUsers, text \in WellFormedTexts :
          (/\ reply'.user = u
           /\ reply'.kind = "text"
           /\ IsUserRegistered(users, u)
           /\ GetState(u) = CHANNEL_SETUP
           /\ ~HasActiveRef(channels, u, RefOf(text))
           /\ HandleText(u, text))
             => \/ /\ Len(channels') = Len(channels) + 1
                   /\ SubSeq(channels', 1, Len(channels)) = channels
                   /\ channels'[Len(channels')].user_id = u
                   /\ channels'[Len(channels')].channel_id = RefOf(text)
                   /\ channels'[Len(channels')].channel_name = NameOf(text)
                   /\ channels'[Len(channels')].is_active
                   /\ ActiveCount(channels', u) = ActiveCount(channels, u) + 1
                   /\ reply'.msg = "channel_added"
                   /\ GetStateIn(user_states', u) = IDLE
                \/ /\ channels' = channels
                   /\ reply'.msg = "channel_add_failed"
                   /\ GetStateIn(user_states', u) = CHANNEL_SETUP]_vars

\* C7 witness: a channel whose name has exactly the longest accepted length
\* was added and its owner is Idle.
C7_Witness ==
    /\ reply.msg = "channel_added"
    /\ GetState(reply.user) = IDLE
    /\ \E i \in DOMAIN channels :
          /\ channels[i].user_id = reply.user
          /\ channels[i].is_active
          /\ Len(channels[i].channel_name) = MaxChannelNameLen

(***************************************************************************)
(* Properties of the flows                                                 *)
(***************************************************************************)

\* the replies that report a flow completed
FlowCompleted ==
    {"channel_added", "session_uploaded", "frozen_check_complete", "withdraw_complete",
     "premium_granted", "premium_removed"}

\* C2: when a handler reports a flow completed (channel added, session
\* stored, bulk frozen check processed, withdraw confirmed, premium command
\* executed), the user's state is Idle.
C2_CompletedFlowsEndIdle ==
    [][\A u \in Users :
          (reply'.user = u /\ reply'.msg \in FlowCompleted)
             => GetStateIn(user_states', u) = IDLE]_vars

\* the cancel button offered on entry to each state
CancelReplies ==
    {<<CHANNEL_SETUP, "manage_channels">>, <<SESSION_UPLOAD, "session_menu">>,
     <<FILE_UPLOAD, "frozen_menu">>, <<FILE_UPLOAD, "frozen_menu_detected">>,
     <<WITHDRAW_PROCESSING, "main_menu">>}

\* C3: pressing the cancel button offered on entry to a non-Idle state
\* (manage_channels, session_menu, check_frozen, main_menu) leaves the user Idle.
C3_CancelReturnsIdle ==
    [][\A u \in Users :
          (/\ reply'.user = u
           /\ reply'.kind = "callback"
           /\ <<GetState(u), reply'.msg>> \in CancelReplies)
             => GetStateIn(user_states', u) = IDLE]_vars

(***************************************************************************)
(* Properties of the session store                                         *)
(***************************************************************************)

\* the last call was `op` for user_id and returned True
Succeeded(c, op, user_id) == c.op = op /\ c.user = user_id /\ c.result = "True"

\* C11: every user has at most one session row, and get_session(u) is the
\* blob of the latest successful store_session(u, ...) for as long as no
\* remove_user_session(u) follows it: a successful store makes get_session
\* return its blob, also after a removal, and every step that is neither a
\* successful store nor a removal for u leaves get_session(u) as it was
C11_OneSessionLatestBlob ==
    /\ [](\A u \in Users : Len(SessionRows(sessions, u)) <= 1)
    /\ [][\A u \in Users :
            /\ Succeeded(call', "store_session", u)
                  => GetSession(sessions', u) = call'.value
            /\ ~(call'.user = u /\ call'.op \in {"store_session", "remove_user_session"})
                  => GetSession(sessions', u) = GetSession(sessions, u)
            /\ (call'.user = u /\ call'.op = "store_session" /\ call'.result = "False")
                  => GetSession(sessions', u) = GetSession(sessions, u)]_vars

\* a blob has just been stored for user 1, after the session of user 2 was
\* stored and removed
C11_Witness ==
    /\ Succeeded(call, "store_session", 1)
    /\ call.value = [t |-> "bytes", v |-> <<"T">>]
    /\ Len(sessions) = 2
    /\ sessions[1].user_id = 2 /\ ~sessions[1].is_active
    /\ sessions[2].user_id = 1 /\ sessions[2].uploaded_at = 0

NameEnds(doc, exts) ==
    doc.has_name /\ \E e \in exts : EndsWith(Lower(doc.file_name), e)

\* the entries of an archive whose names end in a session extension
SessionEntries(doc) ==
    SelectSeq(doc.entries, LAMBDA e : \E x \in SessionExt : EndsWith(Lower(e.filename), x))

\* the bytes an upload yields: the first session entry of a .zip, else the file
UploadBlob(doc) ==
    IF NameEnds(doc, {ZipExt})
    THEN IF doc.is_zip /\ SessionEntries(doc) # <<>> /\ SessionEntries(doc)[1].readable
         THEN SessionEntries(doc)[1].data
         ELSE <<>>
    ELSE doc.data

\* the documents the upload turns down
RejectedUpload(doc) ==
    \/ ~NameEnds(doc, SessionExt \cup {ZipExt})
    \/ NameEnds(doc, {ZipExt}) /\ SessionEntries(doc) = <<>>
    \/ UploadBlob(doc) = <<>>

\* C13: in SessionUpload a document whose name ends in none of .session, .zip,
\* .tdata, .json, or a .zip without an entry ending in .session/.tdata/.json,
\* or a file that yields no bytes, leaves the user in SessionUpload and leaves
\* the stored session of the user as it was
C13_RejectedUploadKeepsState ==
    [][\A u \in UploadUsers, doc \in UploadDocs :
          (/\ reply'.user = u /\ reply'.kind = "document"
           /\ GetState(u) = SESSION_UPLOAD
           /\ RejectedUpload(doc)
           /\ HandleDocument(u, doc))
          => /\ GetStateIn(user_states', u) = SESSION_UPLOAD
             /\ SessionRows(sessions', u) = SessionRows(sessions, u)]_vars

\* an upload without session data was turned down while a session is stored
C13_Witness ==
    /\ reply = [user |-> 2, kind |-> "document", msg |-> "no_session_data"]
    /\ GetState(2) = SESSION_UPLOAD
    /\ GetSession(sessions, 2) = [t |-> "bytes", v |-> <<"J">>]

\* C14: in SessionUpload an accepted document with data, when download and
\* store go through, becomes the session of the user (the first session entry
\* of a .zip, else the file's bytes), no temporary file stays behind and the
\* user is Idle; whatever the outcome, the user becomes Idle only with the
\* session stored
C14_AcceptedUploadStored ==
    [][\A u \in UploadUsers, doc \in UploadDocs :
          /\ (/\ reply'.user = u /\ reply'.kind = "document"
              /\ GetState(u) = SESSION_UPLOAD
              /\ IsUserRegistered(users, u)
              /\ ~RejectedUpload(doc)
              /\ Apply(DocumentResult(Cur, u, doc, now, TRUE, TRUE), u, "document"))
             => /\ GetSession(sessions', u) = [t |-> "bytes", v |-> UploadBlob(doc)]
                /\ Len(SessionRows(sessions', u)) = 1
                /\ temp_files' = {}
                /\ GetStateIn(user_states', u) = IDLE
          /\ (/\ reply'.user = u /\ reply'.kind = "document"
              /\ GetState(u) = SESSION_UPLOAD
              /\ HandleDocument(u, doc)
              /\ GetStateIn(user_states', u) = IDLE)
             => /\ reply'.msg = "session_uploaded"
                /\ ~RejectedUpload(doc)
                /\ GetSession(sessions', u) = [t |-> "bytes", v |-> UploadBlob(doc)]]_vars

\* the session entry of an archive has just been stored
C14_Witness ==
    /\ reply = [user |-> 2, kind |-> "document", msg |-> "session_uploaded"]
    /\ GetSession(sessions, 2) = [t |-> "bytes", v |-> <<"J">>]
    /\ temp_files = {}
    /\ GetState(2) = IDLE

(***************************************************************************)
(* Properties of the frozen-result cache                                   *)
(***************************************************************************)

\* C15: get_cached_result(c, p) is the value of the latest
\* cache_frozen_result(c, p, v) when that call is less than an hour old, and
\* absent when there was none or it is more than an hour old; the row of an
\* expired entry is still in the table; caching again replaces the value and
\* starts the hour anew, the latest call being the one that counts
C15_CacheOneHour ==
    \A c \in CacheChannels, p \in CachePhones :
        LET got == GetCachedResult(frozen_cache, c, p, now)
            k == <<c, p>>
        IN  IF k \notin DOMAIN last_cached THEN got = None
            ELSE /\ now - last_cached[k].at < OneHour
                       => got = [t |-> "bool", v |-> <<last_cached[k].v>>]
                 /\ now - last_cached[k].at > OneHour => got = None
                 /\ \E i \in DOMAIN frozen_cache :
                       frozen_cache[i].channel_id = c /\ frozen_cache[i].phone_number = p

\* a lookup has just found nothing for an entry cached more than an hour
\* ago, whose row is still there, while a later entry is found
C15_Witness ==
    /\ call.op = "get_cached_result" /\ call.value = None
    /\ \E i, j \in DOMAIN frozen_cache :
          /\ now - frozen_cache[i].checked_at > OneHour
          /\ GetCachedResult(frozen_cache, frozen_cache[i].channel_id,
                             frozen_cache[i].phone_number, now) = None
          /\ now - frozen_cache[j].checked_at < OneHour
          /\ now - frozen_cache[j].checked_at > 0

(***************************************************************************)
(* Properties of the users table                                           *)
(***************************************************************************)

\* C16: is_premium_user is True for every id of the admin allowlist in every
\* state of the store, without a row and with the flag stored as false, and
\* also when the store cannot be read: the allowlist is looked at first
C16_AdminAlwaysPremium ==
    \A a \in AdminIds, read_ok \in BOOLEAN : IsPremiumUserResult(users, a, read_ok) = "True"

\* the premium flag of the admin has just been stored as false
C16_Witness ==
    /\ Succeeded(call, "set_premium_status", 1)
    /\ call.value = [t |-> "bool", v |-> <<FALSE>>]
    /\ 1 \in AdminIds
    /\ 1 \in DOMAIN users /\ ~users[1].is_premium
    /\ IsPremiumUser(users, 1)

\* C17: whenever set_premium_status(u, v) returns True for a user u outside
\* the allowlist, is_premium_user(u) right after it returns v
C17_SetThenIsPremium ==
    [][\A u \in Users \ AdminIds :
          Succeeded(call', "set_premium_status", u)
          => IsPremiumUserResult(users', u, TRUE) = Returned(call'.value.v[1])]_vars

\* C18: only set_premium_status changes a stored premium flag: every other
\* store method, register_user for a registered user among them, leaves the
\* flag of every user that has a row as it is
C18_OnlySetPremiumChangesFlag ==
    [][call'.op # "set_premium_status"
          => \A u \in DOMAIN users :
                u \in DOMAIN users' /\ users'[u].is_premium = users[u].is_premium]_vars

\* C19: every event of a registered user that is handled without a store
\* failure (a command, a callback, a text, a document) sets the last-active
\* timestamp of that user to the time of the event
C19_EveryEventUpdatesActivity ==
    [][\A u \in ActivityUsers :
          (/\ now' = now
           /\ reply'.user = u
           /\ reply'.msg # "error"
           /\ IsUserRegistered(users, u))
          => /\ IsUserRegistered(users', u)
             /\ users'[u].last_active = now]_vars

(***************************************************************************)
(* Properties of channel ownership                                         *)
(***************************************************************************)

\* C20: a channel is deactivated only by an event of its owner, and no event
\* of a user A, a remove_channel_<id> naming a channel of B included, changes
\* the active channels of another user B
C20_NoCrossUserRemoval ==
    [][\A a \in Users :
          reply'.user = a
          => /\ Len(channels') >= Len(channels)
             /\ \A i \in DOMAIN channels :
                   (channels[i].is_active /\ ~channels'[i].is_active)
                   => channels[i].user_id = a
             /\ \A b \in Users \ {a} :
                   GetUserChannels(channels', b) = GetUserChannels(channels, b)]_vars

\* user 1 has just asked to remove the channel with id 1, which is an
\* active channel of user 2
C20_Witness ==
    /\ reply = [user |-> 1, kind |-> "callback", msg |-> "channel_removed"]
    /\ channels # <<>>
    /\ channels[1].id = 1 /\ channels[1].user_id = 2 /\ channels[1].is_active

(***************************************************************************)
(* Properties of the channel list                                          *)
(***************************************************************************)

\* C21: get_user_channels(u) is the list of the active channels of u in the
\* order they were added: a successful add_channel(u, c, n) puts the new
\* channel at its end, a successful remove_channel(u, id) takes the channel
\* with that id out of it and keeps the rest in order, no other call changes
\* it, every element is an active row of u, and a row once inactive stays so
C21_ChannelListInOrder ==
    /\ [](\A u \in Users :
            \A k \in DOMAIN GetUserChannels(channels, u) :
               /\ GetUserChannels(channels, u)[k].user_id = u
               /\ GetUserChannels(channels, u)[k].is_active)
    /\ [][\A u \in Users :
            /\ \A c \in StoreChannelIds, n \in StoreChannelNames :
                  (Succeeded(call', "add_channel", u) /\ CallAddChannel(u, c, n))
                  => /\ Len(GetUserChannels(channels', u))
                           = Len(GetUserChannels(channels, u)) + 1
                     /\ SubSeq(GetUserChannels(channels', u), 1,
                               Len(GetUserChannels(channels, u)))
                           = GetUserChannels(channels, u)
                     /\ LET new == GetUserChannels(channels', u)[
                                       Len(GetUserChannels(channels', u))]
                        IN  /\ new.channel_id = c /\ new.channel_name = n
                            /\ \A i \in DOMAIN channels : channels[i].id # new.id
            /\ \A i \in 1..MaxRows :
                  (Succeeded(call', "remove_channel", u) /\ CallRemoveChannel(u, i))
                  => GetUserChannels(channels', u)
                        = SelectSeq(GetUserChannels(channels, u), LAMBDA r : r.id # i)
            /\ ~(call'.user = u /\ call'.result = "True"
                   /\ call'.op \in {"add_channel", "remove_channel"})
                  => GetUserChannels(channels', u) = GetUserChannels(channels, u)
            /\ \A i \in DOMAIN channels :
                  ~channels[i].is_active
                  => i \in DOMAIN channels' /\ ~channels'[i].is_active]_vars

\* the first of two channels of user 1 has just been removed: the list holds
\* the second one only
C21_Witness ==
    /\ Succeeded(call, "remove_channel", 1)
    /\ Len(channels) = 2
    /\ channels[1].user_id = 1 /\ ~channels[1].is_active
    /\ channels[2].user_id = 1 /\ channels[2].is_active
    /\ GetUserChannels(channels, 1) = <<channels[2]>>

(***************************************************************************)
(* Properties of the store's failure handling                              *)
(***************************************************************************)

\* C22: no public store method lets a failure of the storage layer reach its
\* caller: each returns a failure value (False or None) instead of raising
C22_NoFailurePropagates == call.result # "raised"

(***************************************************************************)
(* Properties of the withdraw flow                                         *)
(***************************************************************************)

\* the numbers written in the documents and texts of the withdraw flow
NumbersOfDoc(doc) ==
    CASE doc = DocTxt -> <<TxNumber>>
      [] doc = DocTwo -> <<TxOther, TxNumber>>
      [] doc = DocZip -> <<TxNumber>>
      [] doc = DocCsv -> <<TxNumber>>
      [] OTHER -> <<>>
NumbersOfText(text) ==
    CASE text = TxNumber -> <<TxNumber>>
      [] text = TxOther -> <<TxOther>>
      [] OTHER -> <<>>

\* the numbers collected so far
Collected(uc, user_id) ==
    IF "withdraw_numbers" \in DOMAIN BagIn(uc, user_id)
    THEN BagIn(uc, user_id)["withdraw_numbers"].v
    ELSE <<>>

\* the position of the first occurrence of x in l
FirstPos(l, x) == CHOOSE i \in DOMAIN l : l[i] = x /\ \A j \in 1..(i - 1) : l[j] # x

\* r is l without its repetitions, in the order of first occurrence
IsDedupOf(r, l) ==
    /\ \A i, j \in DOMAIN r : i # j => r[i] # r[j]
    /\ {r[i] : i \in DOMAIN r} = {l[i] : i \in DOMAIN l}
    /\ \A i, j \in DOMAIN r : i < j => FirstPos(l, r[i]) < FirstPos(l, r[j])

C24_WithdrawTextReplaces ==
    [][\A u \in WithdrawUsers, text \in WithdrawTexts :
          (/\ reply'.user = u /\ reply'.kind = "text"
           /\ GetState(u) = WITHDRAW_PROCESSING
           /\ IsUserRegistered(users, u)
           /\ HandleText(u, text))
          => /\ GetStateIn(user_states', u) = WITHDRAW_PROCESSING
             /\ IF NumbersOfText(text) # <<>>
                THEN /\ "withdraw_numbers" \in DOMAIN BagIn(user_contexts', u)
                     /\ BagIn(user_contexts', u)["withdraw_numbers"]
                           = List(NumbersOfText(text))
                ELSE BagIn(user_contexts', u) = BagIn(user_contexts, u)]_vars

\* a text with one number has just been handled: that number alone is
\* collected
C24_Witness ==
    /\ reply = [user |-> 2, kind |-> "text", msg |-> "numbers_found"]
    /\ GetState(2) = WITHDRAW_PROCESSING
    /\ Collected(user_contexts, 2) = <<TxOther>>

(***************************************************************************)
(* Properties of the admin input                                           *)
(***************************************************************************)

\* the user ids written in the admin texts
ValidIdTexts == {TxTwo, TxTwoPadded, TxSeven}
TargetOf(text) == IF text = TxSeven THEN 7 ELSE 2

\* C25: a text of a registered user outside the admin allowlist, handled in
\* ADMIN_COMMAND, changes no user's premium flag (set_premium_status is not
\* called) and clears the state and context of that user, whatever the
\* context the state was entered with
C25_NonAdminInputDenied ==
    [][\A u \in Users \ AdminIds, text \in AdminTexts :
          (/\ reply'.user = u /\ reply'.kind = "text"
           /\ GetState(u) = ADMIN_COMMAND
           /\ IsUserRegistered(users, u)
           /\ HandleText(u, text))
          => /\ users' = users
             /\ GetStateIn(user_states', u) = IDLE
             /\ u \notin DOMAIN user_states'
             /\ u \notin DOMAIN user_contexts'
             /\ reply'.msg = "access_denied"]_vars

\* user 2, who is no admin, has just been denied in ADMIN_COMMAND
C25_Witness ==
    /\ reply = [user |-> 2, kind |-> "text", msg |-> "access_denied"]
    /\ 2 \notin AdminIds
    /\ GetState(2) = IDLE
    /\ call.op = "set_state" /\ call.user = 2 /\ call.state = ADMIN_COMMAND
    /\ call.context = Ctx([admin_action |-> Str("add_premium")])
    /\ ~users[2].is_premium

\* the premium flag the admin action of the context stores
ActionFlag(uc, user_id) ==
    BagIn(uc, user_id)["admin_action"] = Str("add_premium")

\* C26: for an admin in ADMIN_COMMAND with admin_action add_premium or
\* remove_premium, a text that is no integer leaves state, context and store
\* as they are; a text that is an integer id has the flag of that id set
\* (true for add_premium, false for remove_premium) when the store succeeds
\* and nothing else in the store changed, and the state and context of the
\* admin are cleared whether the store succeeded or failed
C26_PremiumInput ==
    [][\A a \in AdminIds, text \in AdminTexts :
          (/\ reply'.user = a /\ reply'.kind = "text"
           /\ GetState(a) = ADMIN_COMMAND
           /\ IsUserRegistered(users, a)
           /\ "admin_action" \in DOMAIN BagIn(user_contexts, a)
           /\ HandleText(a, text))
          => IF text \notin ValidIdTexts
             THEN /\ user_states' = user_states
                  /\ user_contexts' = user_contexts
                  /\ <<users, channels, sessions, frozen_cache>>'
                        = <<users, channels, sessions, frozen_cache>>
             ELSE /\ a \notin DOMAIN user_states'
                  /\ a \notin DOMAIN user_contexts'
                  /\ <<channels, sessions, frozen_cache>>'
                        = <<channels, sessions, frozen_cache>>
                  /\ \/ reply'.msg = "premium_failed" /\ users' = users
                     \/ /\ reply'.msg = IF ActionFlag(user_contexts, a)
                                        THEN "premium_granted" ELSE "premium_removed"
                        /\ DOMAIN users' = DOMAIN users
                        /\ \A w \in DOMAIN users :
                              users'[w] = IF w = TargetOf(text)
                                          THEN [users[w] EXCEPT
                                                  !.is_premium = ActionFlag(user_contexts, a)]
                                          ELSE users[w]]_vars

\* the admin has just granted premium to user 2 and is Idle again
C26_Witness ==
    /\ reply = [user |-> 1, kind |-> "text", msg |-> "premium_granted"]
    /\ 2 \in DOMAIN users /\ users[2].is_premium
    /\ 1 \notin DOMAIN user_states /\ 1 \notin DOMAIN user_contexts

(***************************************************************************)
(* Properties of the file checks and of the default handlers               *)
(***************************************************************************)

\* bag is `old` with the two keys set and every other key as before
SetsTwoKeys(bag, old, k1, v1, k2, v2) ==
    /\ DOMAIN bag = DOMAIN old \cup {k1, k2}
    /\ bag[k1] = v1 /\ bag[k2] = v2
    /\ \A k \in DOMAIN old \ {k1, k2} : bag[k] = old[k]

C28_SmartDetectionKeepsState ==
    [][\A u \in FileUsers, doc \in FileDocs :
          /\ (/\ reply'.user = u /\ reply'.kind = "document"
              /\ GetState(u) \notin {SESSION_UPLOAD, FILE_UPLOAD, WITHDRAW_PROCESSING}
              /\ HandleDocument(u, doc))
             => /\ user_states' = user_states
                /\ (\/ NameEnds(doc, SessionExt)
                    \/ ~NameEnds(doc, {TxtExt, CsvExt, ZipExt})
                    \/ NumbersOfDoc(doc) = <<>>)
                      => user_contexts' = user_contexts
          /\ (/\ reply'.user = u /\ reply'.kind = "document"
              /\ GetState(u) \notin {SESSION_UPLOAD, FILE_UPLOAD, WITHDRAW_PROCESSING}
              /\ IsUserRegistered(users, u)
              /\ ~NameEnds(doc, SessionExt)
              /\ NameEnds(doc, {TxtExt, CsvExt, ZipExt}) /\ NumbersOfDoc(doc) # <<>>
              /\ Apply(DocumentResult(Cur, u, doc, now, TRUE, TRUE), u, "document"))
             => SetsTwoKeys(BagIn(user_contexts', u), BagIn(user_contexts, u),
                            "detected_numbers", List(NumbersOfDoc(doc)),
                            "detected_file", Str(doc.file_name))]_vars

\* the numbers of an archive have just been detected for an Idle user
C28_Witness ==
    /\ reply = [user |-> 2, kind |-> "document", msg |-> "numbers_detected"]
    /\ GetState(2) = IDLE
    /\ Bag(2) = [detected_numbers |-> List(<<TxNumber>>),
                 detected_file |-> Str(DocZip.file_name)]

\* C29: a text handled in a state other than CHANNEL_SETUP,
\* WITHDRAW_PROCESSING and ADMIN_COMMAND (Idle, CHANNEL_EDIT, SESSION_UPLOAD,
\* FILE_UPLOAD, the single-number check included) changes neither the state
\* nor the context nor the store, with or without numbers in the text
C29_DefaultTextChangesNothing ==
    [][\A u \in FileUsers, text \in FileTexts :
          (/\ reply'.user = u /\ reply'.kind = "text"
           /\ GetState(u) \notin {CHANNEL_SETUP, WITHDRAW_PROCESSING, ADMIN_COMMAND}
           /\ HandleText(u, text))
          => /\ user_states' = user_states
             /\ user_contexts' = user_contexts
             /\ <<users, channels, sessions, frozen_cache>>'
                   = <<users, channels, sessions, frozen_cache>>]_vars

\* a number has just been sent as a message in the single-number check
C29_Witness ==
    /\ reply = [user |-> 2, kind |-> "text", msg |-> "numbers_in_message"]
    /\ GetState(2) = FILE_UPLOAD
    /\ Bag(2) = [check_type |-> Str("single")]

(***************************************************************************)
(* Properties of the phone number extraction                               *)
(***************************************************************************)

NoValueTwice(r) == \A i, j \in DOMAIN r : r[i] = r[j] => i = j

LengthsInRange(r) ==
    \A i \in DOMAIN r :
       /\ Len(r[i]) >= 10 /\ Len(r[i]) <= 15
       /\ \A k \in DOMAIN r[i] : r[i][k] \notin {"-", " ", "\t", "\n", "\r"}

\* the first index of the text at which the value e stands, hyphens and
\* whitespace set aside; 0 when it stands nowhere
FirstOccurrence(text, e) ==
    LET at == {i \in DOMAIN text :
                 /\ text[i] = e[1]
                 /\ \E n \in 1..(Len(text) - i + 1) :
                       SelectSeq(SubSeq(text, i, i + n - 1),
                                 LAMBDA c : c \notin {"-", " ", "\t", "\n", "\r"}) = e}
    IN  IF at = {} THEN 0 ELSE CHOOSE i \in at : \A k \in at : i <= k

InTextOrder(text, r) ==
    \A i, j \in DOMAIN r :
       i < j => /\ FirstOccurrence(text, r[i]) > 0
                /\ FirstOccurrence(text, r[i]) <= FirstOccurrence(text, r[j])

\* the list returned holds no value twice and only values of 10 to 15
\* characters without hyphens and whitespace
C30_ExtractedDistinctInRange ==
    call.op = "_extract_phone_numbers"
    => NoValueTwice(call.result) /\ LengthsInRange(call.result)

RunAt(text, i, d) ==
    /\ i >= 1 /\ i + Len(d) - 1 <= Len(text)
    /\ SubSeq(text, i, i + Len(d) - 1) = d
    /\ (i = 1 \/ text[i - 1] \notin {"0", "1", "2", "3", "4", "5", "6", "7", "8", "9"})
    /\ (i + Len(d) > Len(text)
        \/ text[i + Len(d)] \notin {"0", "1", "2", "3", "4", "5", "6", "7", "8", "9"})

\* the text holds d with a leading plus, and holds it bare
HasPlusForm(text, d) == \E i \in DOMAIN text : text[i] = "+" /\ RunAt(text, i + 1, d)
HasBareForm(text, d) ==
    \E i \in DOMAIN text : RunAt(text, i, d) /\ (i = 1 \/ text[i - 1] # "+")

\* C31: when the same digits stand in a text both with a leading plus and
\* bare, _extract_phone_numbers returns a single entry for them, without the
\* plus
C31_PlusAndBareOneEntry ==
    \A d \in {TxNumber, TxOther} :
       (/\ call.op = "_extract_phone_numbers"
        /\ HasPlusForm(call.value, d) /\ HasBareForm(call.value, d))
       => /\ \E i \in DOMAIN call.result : call.result[i] = d
          /\ \A i \in DOMAIN call.result : call.result[i] # <<"+">> \o d

\* the values of a list, as a set
Values(l) == {l[i] : i \in DOMAIN l}

\* C32: extracting the numbers of the comma-joined output of
\* _extract_phone_numbers(t) yields the same set of numbers as
\* _extract_phone_numbers(t)
C32_IdempotentOnOutput ==
    call.op = "_extract_phone_numbers(output)"
    => Values(call.result) = Values(call.context)

\* the output of a text with a grouped number and a number with a plus has
\* been extracted again
C32_Witness ==
    /\ call.op = "_extract_phone_numbers(output)"
    /\ call.value = TxGrouped \o TxPlusOther
    /\ call.context = <<TxPlusOther, TxOther,
                        <<"1", "2", "3", "4", "5", "6", "7", "8", "9", "0", "0">>>>
    /\ Len(call.result) = 3

(***************************************************************************)
(* Properties of the archive extraction                                    *)
(***************************************************************************)

\* the numbers of the readable .txt and .csv entries of the archives, entry
\* after entry, each number once
NumbersOfArchive(doc) ==
    CASE doc = DocZip -> <<TxNumber>>
      [] doc = ArcMixed -> <<TxOther, TxNumber>>
      [] doc = ArcUnreadable -> <<TxOther>>
      [] doc = ArcOrder -> <<TxNumber, TxOther>>
      [] OTHER -> <<>>

\* C33: archive extraction returns the numbers of the archive's .txt and
\* .csv entries only, in entry order, each once; an entry that fails to read
\* is skipped and the numbers of the other entries are kept; a corrupt
\* archive gives an empty list, which the caller answers as a file without
\* numbers and not as an error
C33_ArchiveNumbers ==
    [][\A u \in ArchiveUsers, doc \in ArchiveDocs :
          /\ (/\ reply'.user = u /\ reply'.kind = "document"
              /\ GetState(u) = IDLE
              /\ IsUserRegistered(users, u)
              /\ Apply(DocumentResult(Cur, u, doc, now, TRUE, TRUE), u, "document"))
             => IF NumbersOfArchive(doc) # <<>>
                THEN /\ reply'.msg = "numbers_detected"
                     /\ BagIn(user_contexts', u)["detected_numbers"]
                           = List(NumbersOfArchive(doc))
                ELSE /\ reply'.msg = "file_received"
                     /\ user_contexts' = user_contexts
          /\ (/\ reply'.user = u /\ reply'.kind = "document"
              /\ GetState(u) = WITHDRAW_PROCESSING
              /\ IsUserRegistered(users, u)
              /\ Apply(DocumentResult(Cur, u, doc, now, TRUE, TRUE), u, "document"))
             => IF NumbersOfArchive(doc) # <<>>
                THEN /\ reply'.msg = "file_added_to_withdraw"
                     /\ IsDedupOf(Collected(user_contexts', u),
                                  Collected(user_contexts, u) \o NumbersOfArchive(doc))
                ELSE /\ reply'.msg # "error"
                     /\ user_contexts' = user_contexts]_vars

\* an archive whose first entry fails to read has given the number of its
\* second entry
C33_Witness ==
    /\ reply = [user |-> 2, kind |-> "document", msg |-> "numbers_detected"]
    /\ GetState(2) = IDLE
    /\ Bag(2) = [detected_numbers |-> List(<<TxOther>>),
                 detected_file |-> Str(ArcUnreadable.file_name)]

(***************************************************************************)
(* Properties of the session removal                                       *)
(***************************************************************************)

\* C34: a user with an active session who sends remove_session is shown the
\* confirmation that offers confirm_remove_session; "no session found" is
\* shown only to a user without an active session (the store answering
\* every call of the handler)
C34_RemoveSessionAsksConfirmation ==
    [][\A u \in RemoveUsers :
          (/\ reply'.user = u /\ reply'.kind = "callback"
           /\ Apply(CallbackResult(Cur, u, Cb("remove_session"), now, TRUE, TRUE),
                    u, "callback"))
          => /\ HasSession(sessions, u) => reply'.msg = "confirm_remove_session"
             /\ reply'.msg = "no_session_found" => ~HasSession(sessions, u)]_vars

(***************************************************************************)
(* Properties of the administrator's events                                *)
(***************************************************************************)

\* an administrator is in ADMIN_COMMAND with admin_action add_premium or
\* remove_premium
AdminReady ==
    \E u \in AdminIds :
       /\ GetState(u) = ADMIN_COMMAND
       /\ "admin_action" \in DOMAIN Bag(u)
       /\ Bag(u)["admin_action"] \in {Str("add_premium"), Str("remove_premium")}

\* no event of the administrator leads to ADMIN_COMMAND
AdminCommandNeverEntered == \A u \in Users : GetState(u) # ADMIN_COMMAND

\* C35: some sequence of command, callback, text and document events brings
\* an administrator to ADMIN_COMMAND with admin_action set to add_premium or
\* remove_premium
C35_AdminCommandReached == <>AdminReady

(***************************************************************************)
(* Properties of the channel limits                                        *)
(***************************************************************************)

AtRest(us, uc, user_id) ==
    /\ GetStateIn(us, user_id) = IDLE
    /\ DOMAIN BagIn(uc, user_id) = {}

OnlyLastActiveOf(us_after, us_before, user_id) ==
    /\ DOMAIN us_after = DOMAIN us_before
    /\ \A k \in DOMAIN us_before :
          /\ us_after[k].is_premium = us_before[k].is_premium
          /\ us_after[k].registered_at = us_before[k].registered_at
          /\ k # user_id => us_after[k].last_active = us_before[k].last_active

\* C39: confirm_withdraw processes and clears the collected numbers only
\* when there are some, leaving the user Idle with no context; without
\* numbers it changes neither state nor context; in both cases no stored
\* record changes but the user's last-active time
C39_ConfirmWithdraw ==
    [][\A u \in WithdrawUsers :
          /\ (/\ reply'.user = u /\ reply'.kind = "callback"
              /\ HandleCallback(u, Cb("confirm_withdraw")))
             => /\ OnlyLastActiveOf(users', users, u)
                /\ <<channels, sessions, frozen_cache>>' = <<channels, sessions, frozen_cache>>
                /\ Collected(user_contexts, u) = <<>>
                      => user_states' = user_states /\ user_contexts' = user_contexts
          /\ (/\ reply'.user = u /\ reply'.kind = "callback"
              /\ Collected(user_contexts, u) # <<>>
              /\ Apply(CallbackResult(Cur, u, Cb("confirm_withdraw"), now, TRUE, TRUE),
                       u, "callback"))
             => /\ reply'.msg = "withdraw_complete"
                /\ AtRest(user_states', user_contexts', u)]_vars

\* the numbers collected from a text have just been processed
C39_Witness ==
    /\ reply = [user |-> 2, kind |-> "callback", msg |-> "withdraw_complete"]
    /\ AtRest(user_states, user_contexts, 2)
    /\ IsUserRegistered(users, 2)

(***************************************************************************)
(* Properties of the reported counts                                       *)
(***************************************************************************)

\* the list stored under a key of the user's context, <<>> when there is none
ListUnder(uc, user_id, key) ==
    IF key \in DOMAIN BagIn(uc, user_id) THEN BagIn(uc, user_id)[key].v ELSE <<>>

\* the counts of the bulk check are consistent
BulkCountsConsistent(r) ==
    /\ r.frozen + r.active = r.total
    /\ 0 <= r.frozen /\ r.frozen <= r.total
    /\ 0 <= r.active

\* the counts of the withdraw confirmation are consistent
WithdrawCountsConsistent(r) ==
    /\ r.successful + r.failed = r.processed
    /\ 0 <= r.failed /\ r.failed <= r.processed
    /\ 0 <= r.successful

\* the counts reported by every completed bulk check are consistent
BulkCheckCounts ==
    [][\A u \in CountUsers :
          (/\ reply'.user = u /\ reply'.kind = "callback"
           /\ reply'.msg = "frozen_check_complete"
           /\ HandleCallback(u, Cb("check_bulk_frozen")))
          => BulkCountsConsistent(
                BulkFrozenResults(ListUnder(user_contexts, u, "bulk_numbers")))]_vars

\* C40: for every non-empty list of collected numbers the counts reported
\* by the withdraw confirmation and by the bulk check are non-negative and
\* add up: successful + failed = processed with 0 <= failed <= processed,
\* and frozen + active = total with 0 <= frozen <= total
C40_ResultCounts ==
    [][\A u \in CountUsers :
          /\ (/\ reply'.user = u /\ reply'.kind = "callback"
              /\ reply'.msg = "frozen_check_complete"
              /\ HandleCallback(u, Cb("check_bulk_frozen")))
             => BulkCountsConsistent(
                   BulkFrozenResults(ListUnder(user_contexts, u, "bulk_numbers")))
          /\ (/\ reply'.user = u /\ reply'.kind = "callback"
              /\ reply'.msg = "withdraw_complete"
              /\ HandleCallback(u, Cb("confirm_withdraw")))
             => WithdrawCountsConsistent(
                   WithdrawResults(ListUnder(user_contexts, u, "withdraw_numbers")))]_vars

====
